---------------------------- MODULE Spec2Model ----------------------------
(***************************************************************************)
(* Model of the UBB statement extraction engine:                           *)
(*   - BankStatement.validate_balance           (src/src/models.py)        *)
(*   - UBBStatementExtractor.extract_transactions (src/src/extractor.py)   *)
(*                                                                         *)
(* Money is a Decimal in the program.  Decimal addition, subtraction, abs  *)
(* and comparison are exact, so an amount is modelled as an integer number *)
(* of cents (1 == 0.01).                                                   *)
(***************************************************************************)
EXTENDS Integers, Sequences, FiniteSets, TLC

VARIABLES
    statement,      \* StatementInfo fields read by validate_balance
    transactions,   \* BankStatement.transactions / the list extract_transactions builds
    result,         \* the ValidationResult returned, or NoResult before the call
    pages_text,     \* self.pages_text, each page as page_text.split("\n")
    pc,             \* where extract_transactions stands
    cur_page,       \* index of the page the outer for loop is at (from 1)
    cur_line,       \* the while loops' index i into the page's lines (from 1)
    start_line,     \* the line date_match matched (holds both date groups)
    start_at,       \* history: <<page, line>> where start_line stands
    description_lines,  \* the local description_lines
    amount_match,   \* the local amount_match: NoMatch, or the amount token matched
    raised,         \* the exception extract_transactions ended with, or "none"
    origin,         \* history: for each emitted transaction, <<page, line>> of its start line
    class_input,    \* the argument of a call of _detect_transaction_type
    detected_type,     \* what that call returned, or "NoCall" before it
    cp_lines,       \* the description_lines argument of a call of _extract_counterparty
    cp_type,        \* the tx_type argument of that call
    counterparty,   \* what that call returned, or Pending before it
    today,          \* what date.today() returns during extract_header
    header,         \* what extract_header returned or raised, or Pending before it
    footer,         \* what extract_footer returned or raised, or Pending before it
    extractors,     \* the UBBStatementExtractor instances of a run with several of them
    bq,             \* the BigQuery tables statements, transactions and import_log
    imp             \* where the import_statement call stands, and what it ended with

validator_vars == <<statement, result>>

extractor_vars == <<pages_text, pc, cur_page, cur_line, start_line, start_at,
                    description_lines, amount_match, raised, origin>>

classifier_vars == <<class_input, detected_type>>

counterparty_vars == <<cp_lines, cp_type, counterparty>>

summary_vars == <<today, header, footer>>

importer_vars == <<bq, imp>>

other_vars == <<classifier_vars, counterparty_vars, summary_vars, extractors, importer_vars>>

vars == <<statement, transactions, result, pages_text, pc, cur_page, cur_line,
          start_line, start_at, description_lines, amount_match, raised, origin,
          class_input, detected_type, cp_lines, cp_type, counterparty, today, header,
          footer, extractors, bq, imp>>

NoCall == "NoCall"

\* The value of a variable that holds a record once the call has been made.
Pending == [pending |-> TRUE]

\* No call of _detect_transaction_type on its own has been made.
ClassifierIdle == class_input = <<>> /\ detected_type = NoCall

\* No call of _extract_counterparty on its own has been made.
CounterpartyIdle == cp_lines = <<>> /\ cp_type = "UNKNOWN" /\ counterparty = Pending

\* No call of extract_header or extract_footer has been made.
SummaryIdle == today = <<2026, 1, 1>> /\ header = Pending /\ footer = Pending

\* No further extractor instance exists.
InstancesIdle == extractors = <<>>

\* No import_statement call is made.
ImporterIdle ==
    /\ bq = [statements |-> <<>>, transactions |-> <<>>, import_log |-> <<>>]
    /\ imp = [pc |-> "idle"]

OthersIdle == ClassifierIdle /\ CounterpartyIdle /\ SummaryIdle /\ InstancesIdle /\ ImporterIdle

(***************************************************************************)
(* Bounds of the model                                                     *)
(***************************************************************************)
\* longest transaction list handed to validate_balance
MaxTx == 3

\* most pages of a document
MaxPages == 2

\* most lines of a document, all pages together
MaxDocLines == 3

(***************************************************************************)
(* models.py : Balance, Turnover, Transaction, ValidationResult            *)
(***************************************************************************)
Balance(e, b) == [eur |-> e, bgn |-> b]

Turnover(d, c) == [debit |-> d, credit |-> c]

\* The fields of Transaction that validate_balance reads.
Tx(e, b, d) == [amount |-> Balance(e, b), is_debit |-> d]

NoResult == [is_valid |-> FALSE, none |-> TRUE]

Abs(x) == IF x < 0 THEN -x ELSE x

\* eur_tolerance = Decimal("0.02")
eur_tolerance == 2

\* bgn_tolerance = Decimal("0.10")
bgn_tolerance == 10

ZeroTotals == [debit_eur |-> 0, credit_eur |-> 0, debit_bgn |-> 0, credit_bgn |-> 0]

\* A slip in the loop: the is_debit test is dropped and every amount is a credit.
AddTx_all_credit(tot, tx) ==
    [tot EXCEPT !.credit_eur = @ + tx.amount.eur,
                !.credit_bgn = @ + tx.amount.bgn]

\* One pass of the body of `for tx in self.transactions`.
AddTx(tot, tx) ==
    IF tx.is_debit
    THEN [tot EXCEPT !.debit_eur = @ + tx.amount.eur,
                     !.debit_bgn = @ + tx.amount.bgn]
    ELSE [tot EXCEPT !.credit_eur = @ + tx.amount.eur,
                     !.credit_bgn = @ + tx.amount.bgn]

\* The loop over self.transactions, from index i on, starting with totals tot.
RECURSIVE AccumulateTotals(_, _, _)
AccumulateTotals(txs, i, tot) ==
    IF i > Len(txs) THEN tot
    ELSE AccumulateTotals(txs, i + 1, AddTx(tot, txs[i]))

\* A slip in the balance equation: debits added, credits subtracted.
calculated_closing_swapped(opening, tot) ==
    Balance(opening.eur - tot.credit_eur + tot.debit_eur,
            opening.bgn - tot.credit_bgn + tot.debit_bgn)

\* calculated_closing_eur / calculated_closing_bgn
calculated_closing(opening, tot) ==
    Balance(opening.eur + tot.credit_eur - tot.debit_eur,
            opening.bgn + tot.credit_bgn - tot.debit_bgn)

\* An entry of errors / warnings: the message's kind and the numbers it prints.
Message(k, a, b, c) == [kind |-> k, calculated |-> a, expected |-> b, diff |-> c]

\* A slip in the comparison: a difference equal to the tolerance is rejected.
balance_errors_ge(calc, expected) ==
    LET eur_diff == Abs(calc.eur - expected.eur)
        bgn_diff == Abs(calc.bgn - expected.bgn)
    IN  (IF eur_diff >= eur_tolerance
         THEN <<Message("EUR balance mismatch", calc.eur, expected.eur, eur_diff)>>
         ELSE <<>>)
        \o
        (IF bgn_diff >= bgn_tolerance
         THEN <<Message("BGN balance mismatch", calc.bgn, expected.bgn, bgn_diff)>>
         ELSE <<>>)

\* A slip in the control flow: `elif` for the BGN test, so that an EUR breach hides it.
balance_errors_elif(calc, expected) ==
    LET eur_diff == Abs(calc.eur - expected.eur)
        bgn_diff == Abs(calc.bgn - expected.bgn)
    IN  IF eur_diff > eur_tolerance
        THEN <<Message("EUR balance mismatch", calc.eur, expected.eur, eur_diff)>>
        ELSE IF bgn_diff > bgn_tolerance
             THEN <<Message("BGN balance mismatch", calc.bgn, expected.bgn, bgn_diff)>>
             ELSE <<>>

\* The two closing-balance comparisons; each appends its own entry to errors.
balance_errors(calc, expected) ==
    LET eur_diff == Abs(calc.eur - expected.eur)
        bgn_diff == Abs(calc.bgn - expected.bgn)
    IN  (IF eur_diff > eur_tolerance
         THEN <<Message("EUR balance mismatch", calc.eur, expected.eur, eur_diff)>>
         ELSE <<>>)
        \o
        (IF bgn_diff > bgn_tolerance
         THEN <<Message("BGN balance mismatch", calc.bgn, expected.bgn, bgn_diff)>>
         ELSE <<>>)

\* The two turnover comparisons (EUR only); each appends its own entry to warnings.
turnover_warnings(tot, turnover) ==
    LET debit_eur_diff  == Abs(tot.debit_eur - turnover.debit.eur)
        credit_eur_diff == Abs(tot.credit_eur - turnover.credit.eur)
    IN  (IF debit_eur_diff > eur_tolerance
         THEN <<Message("Debit turnover mismatch", tot.debit_eur, turnover.debit.eur, debit_eur_diff)>>
         ELSE <<>>)
        \o
        (IF credit_eur_diff > eur_tolerance
         THEN <<Message("Credit turnover mismatch", tot.credit_eur, turnover.credit.eur, credit_eur_diff)>>
         ELSE <<>>)

\* A slip in the verdict: warnings count against is_valid and are reported as errors.
validate_balance_strict(stmt, txs) ==
    LET tot      == AccumulateTotals(txs, 1, ZeroTotals)
        calc     == calculated_closing(stmt.opening_balance, tot)
        expected == stmt.closing_balance
        warnings == turnover_warnings(tot, stmt.turnover)
        errors   == balance_errors(calc, expected) \o warnings
    IN  [is_valid |-> Len(errors) = 0,
         errors   |-> errors,
         warnings |-> warnings,
         calculated_closing_eur |-> calc.eur,
         calculated_closing_bgn |-> calc.bgn,
         expected_closing_eur |-> expected.eur,
         expected_closing_bgn |-> expected.bgn,
         total_debit_eur  |-> tot.debit_eur,
         total_credit_eur |-> tot.credit_eur,
         total_debit_bgn  |-> tot.debit_bgn,
         total_credit_bgn |-> tot.credit_bgn,
         none |-> FALSE]

\* BankStatement.validate_balance as a function of the statement and its transactions.
validate_balance(stmt, txs) ==
    LET tot      == AccumulateTotals(txs, 1, ZeroTotals)
        calc     == calculated_closing(stmt.opening_balance, tot)
        expected == stmt.closing_balance
        errors   == balance_errors(calc, expected)
        warnings == turnover_warnings(tot, stmt.turnover)
    IN  [is_valid |-> Len(errors) = 0,
         errors   |-> errors,
         warnings |-> warnings,
         calculated_closing_eur |-> calc.eur,
         calculated_closing_bgn |-> calc.bgn,
         expected_closing_eur |-> expected.eur,
         expected_closing_bgn |-> expected.bgn,
         total_debit_eur  |-> tot.debit_eur,
         total_credit_eur |-> tot.credit_eur,
         total_debit_bgn  |-> tot.debit_bgn,
         total_credit_bgn |-> tot.credit_bgn,
         none |-> FALSE]

(***************************************************************************)
(* Inputs of the validator specification                                   *)
(***************************************************************************)
\* Opening balances: the end-to-end example's, zero, and a small one.
OpeningSet == {Balance(100000, 195583), Balance(0, 0), Balance(5, 20)}

\* Transactions: the example's credit and debit, and cent-sized ones that put
\* the difference on either side of each tolerance.
TxSet == {Tx(20000, 39117, FALSE), Tx(5000, 9779, TRUE),
          Tx(2, 10, FALSE), Tx(3, 11, TRUE), Tx(1, 1, FALSE), Tx(0, 0, TRUE)}

ClosingSet == {Balance(e, b) : e \in {115000, 114000, 5, 7}, b \in {224921, 124921, 20, 30}}

TurnoverSet == {Turnover(Balance(d, 0), Balance(c, 0)) : d \in {0, 5000}, c \in {0, 20000}}

TxLists == UNION {[1..n -> TxSet] : n \in 0..MaxTx}

\* The extractor before any document is loaded.
ExtractorIdle ==
    /\ pages_text = <<>>
    /\ pc = "idle"
    /\ cur_page = 1
    /\ cur_line = 1
    /\ start_line = <<>>
    /\ start_at = <<0, 0>>
    /\ description_lines = <<>>
    /\ amount_match = "NoMatch"
    /\ raised = "none"
    /\ origin = <<>>

InitValidate ==
    /\ \E o \in OpeningSet, c \in ClosingSet, t \in TurnoverSet :
          statement = [opening_balance |-> o, closing_balance |-> c, turnover |-> t]
    /\ transactions \in TxLists
    /\ result = NoResult
    /\ ExtractorIdle
    /\ OthersIdle

\* A call of statement.validate_balance().
ValidateBalance ==
    /\ result' = validate_balance(statement, transactions)
    /\ UNCHANGED <<statement, transactions>>
    /\ UNCHANGED extractor_vars
    /\ UNCHANGED other_vars

NextValidate == ValidateBalance

SpecValidate == InitValidate /\ [][NextValidate]_vars

(***************************************************************************)
(* extractor.py : text                                                     *)
(*                                                                         *)
(* A line of text is a sequence of tokens, the pieces the patterns of the  *)
(* extractor tell apart; text is modelled up to the amount of white space  *)
(* between tokens.  Cyrillic literals are written transliterated.          *)
(***************************************************************************)
\* What TRANSACTION_DATE_PATTERN matches at the start of a line:
\* posting date DD/MM/YY, value date DD/MM, and the white space after them.
DateTokens == {"05/01/26 06/01", "07/01/26 08/01", "28/02/25 29/02",
               "02/01/26 30/12", "05/01/99 06/01"}

\* The groups of TRANSACTION_DATE_PATTERN, split on "/" and read by int().
DateGroups(tok) ==
    CASE tok = "05/01/26 06/01" -> [posting |-> <<5, 1, 26>>, value |-> <<6, 1>>]
      [] tok = "07/01/26 08/01" -> [posting |-> <<7, 1, 26>>, value |-> <<8, 1>>]
      [] tok = "28/02/25 29/02" -> [posting |-> <<28, 2, 25>>, value |-> <<29, 2>>]
      [] tok = "02/01/26 30/12" -> [posting |-> <<2, 1, 26>>,  value |-> <<30, 12>>]
      [] tok = "05/01/99 06/01" -> [posting |-> <<5, 1, 99>>,  value |-> <<6, 1>>]

\* What AMOUNT_PATTERN matches: "<number> EUR / <number> BGN", a number being
\* any run of digits, commas and dots after an optional minus sign.
AmountTokens == {"-50.00 EUR / -97.79 BGN", "200.00 EUR / 391.17 BGN",
                 "7.00 EUR / 13.69 BGN", "1,150.00 EUR / 2,249.21 BGN",
                 "1.2.3 EUR / 4.00 BGN", "-3.00 EUR / 5.87 BGN", "3.00 EUR / -5.87 BGN"}

\* group(1) and group(2) of an AMOUNT_PATTERN match.
AmountGroups(tok) ==
    CASE tok = "-50.00 EUR / -97.79 BGN"     -> [eur |-> "-50.00",   bgn |-> "-97.79"]
      [] tok = "200.00 EUR / 391.17 BGN"     -> [eur |-> "200.00",   bgn |-> "391.17"]
      [] tok = "7.00 EUR / 13.69 BGN"        -> [eur |-> "7.00",     bgn |-> "13.69"]
      [] tok = "1,150.00 EUR / 2,249.21 BGN" -> [eur |-> "1,150.00", bgn |-> "2,249.21"]
      [] tok = "1.2.3 EUR / 4.00 BGN"        -> [eur |-> "1.2.3",    bgn |-> "4.00"]
      [] tok = "-3.00 EUR / 5.87 BGN"        -> [eur |-> "-3.00",    bgn |-> "5.87"]
      [] tok = "3.00 EUR / -5.87 BGN"        -> [eur |-> "3.00",     bgn |-> "-5.87"]

\* _parse_decimal: the commas are removed and Decimal() reads the rest, in
\* cents; Decimal() raises InvalidOperation on text that is no number.
_parse_decimal(value) ==
    CASE value = "-50.00"   -> [ok |-> TRUE, value |-> -5000]
      [] value = "-97.79"   -> [ok |-> TRUE, value |-> -9779]
      [] value = "200.00"   -> [ok |-> TRUE, value |-> 20000]
      [] value = "391.17"   -> [ok |-> TRUE, value |-> 39117]
      [] value = "7.00"     -> [ok |-> TRUE, value |-> 700]
      [] value = "13.69"    -> [ok |-> TRUE, value |-> 1369]
      [] value = "1,150.00" -> [ok |-> TRUE, value |-> 115000]
      [] value = "2,249.21" -> [ok |-> TRUE, value |-> 224921]
      [] value = "4.00"     -> [ok |-> TRUE, value |-> 400]
      [] value = "-3.00"    -> [ok |-> TRUE, value |-> -300]
      [] value = "5.87"     -> [ok |-> TRUE, value |-> 587]
      [] value = "3.00"     -> [ok |-> TRUE, value |-> 300]
      [] value = "-5.87"    -> [ok |-> TRUE, value |-> -587]
      [] OTHER              -> [ok |-> FALSE, value |-> 0]

IsLeap(y) == (y % 4 = 0 /\ y % 100 # 0) \/ y % 400 = 0

DaysIn(m, y) ==
    IF m = 2 THEN (IF IsLeap(y) THEN 29 ELSE 28)
    ELSE IF m \in {4, 6, 9, 11} THEN 30 ELSE 31

\* datetime.date(y, m, d): raises ValueError unless it is a calendar date.
date(y, m, d) ==
    IF y \in 1..9999 /\ m \in 1..12 /\ d \in 1..DaysIn(m, y)
    THEN [ok |-> TRUE, year |-> y, month |-> m, day |-> d]
    ELSE [ok |-> FALSE, year |-> 0, month |-> 0, day |-> 0]

\* _parse_posting_date on the parts of DD/MM/YY.
_parse_posting_date(parts) == date(2000 + parts[3], parts[2], parts[1])

\* Another design: a December value date of a January posting is put in the
\* year before.
_parse_short_date_previous_december(parts, year) ==
    date(IF parts[2] = 12 THEN year - 1 ELSE year, parts[2], parts[1])

\* _parse_short_date on the parts of DD/MM, with the year given.
_parse_short_date(parts, year) == date(year, parts[2], parts[1])

\* TRANSACTION_DATE_PATTERN.match(line)
IsTransactionStart(line) == Len(line) >= 1 /\ line[1] \in DateTokens

\* AMOUNT_PATTERN.search(line): the pattern is anchored at the end of the line.
HasAmount(line) == Len(line) >= 1 /\ line[Len(line)] \in AmountTokens

\* The token AMOUNT_PATTERN matched.
AmountOf(line) == line[Len(line)]

\* line[date_match.end():]
RestOfLine(line) == Tail(line)

\* next_line[:amount_match.start()].strip()
BeforeAmount(line) == SubSeq(line, 1, Len(line) - 1)

\* A slip in the slice: the end index amount_match.start() is left out.
DescPart_to_end(line) == SubSeq(line, 2, Len(line))

\* line[date_match.end():amount_match.start()].strip()
DescPart(line) == SubSeq(line, 2, Len(line) - 1)

StartsWith(line, tok) == Len(line) >= 1 /\ line[1] = tok

Contains(line, tok) == \E k \in 1..Len(line) : line[k] = tok

\* The lines the multi-line branch leaves out of the description:
\* interim balance, page marker, letterhead.
SkippedWhileCollecting(line) ==
    \/ StartsWith(line, "Mezhdinno saldo")
    \/ StartsWith(line, "Stranitsa")
    \/ Contains(line, "OBB Izvlechenie")

\* A slip in the list: the column header test is left out.
SkippedWhileTrailing_no_header(line) ==
    \/ StartsWith(line, "Mezhdinno saldo")
    \/ StartsWith(line, "Stranitsa")
    \/ Contains(line, "OBB Izvlechenie")

\* The lines the trailing-line loop skips: the same, and the column header.
SkippedWhileTrailing(line) ==
    \/ StartsWith(line, "Mezhdinno saldo")
    \/ StartsWith(line, "Stranitsa")
    \/ Contains(line, "OBB Izvlechenie")
    \/ StartsWith(line, "Schet. Data")

\* " ".join(description_lines)
RECURSIVE Join(_)
Join(ls) == IF ls = <<>> THEN <<>> ELSE Head(ls) \o Join(Tail(ls))

(***************************************************************************)
(* extractor.py : _detect_transaction_type                                 *)
(***************************************************************************)
\* str.upper() of a token.
Upper(tok) ==
    CASE tok = "prevod" -> "PREVOD"
      [] tok = "taksa"  -> "TAKSA"
      [] OTHER          -> tok

\* Tokens that begin with a keyword word and go on: <<token, word>>.
LongerTokens == { <<"PREVODI", "PREVOD">>, <<"TAKSATA", "TAKSA">> }

\* The upper-cased token begins with the word w.
BeginsWith(tok, w) == Upper(tok) = w \/ <<Upper(tok), w>> \in LongerTokens

\* kw in text, for a keyword of one or more words: a substring test, so the
\* last word of the keyword may be the beginning of a longer token.
HasKeyword(text, kw) ==
    \E k \in 1..Len(text) :
        /\ k + Len(kw) - 1 <= Len(text)
        /\ \A j \in 1..(Len(kw) - 1) : Upper(text[k + j - 1]) = kw[j]
        /\ BeginsWith(text[k + Len(kw) - 1], kw[Len(kw)])

\* A slip in the order: the generic transfer keyword is tested first.
_detect_transaction_type_generic_first(description) ==
    IF HasKeyword(description, <<"PREVOD">>) THEN "INTERNAL_TRANSFER"
    ELSE IF HasKeyword(description, <<"SEPA", "POLUCHEN">>) THEN "SEPA_INCOMING"
    ELSE IF \/ HasKeyword(description, <<"IZHODYASHT", "VALUTEN", "PREVOD">>)
            \/ HasKeyword(description, <<"IZHODYASHT">>) THEN "SEPA_OUTGOING"
    ELSE IF HasKeyword(description, <<"KARTOVA", "TRANZAKTSIYA">>) THEN "CARD_TRANSACTION"
    ELSE IF HasKeyword(description, <<"SABRANA", "TAKSA", "ILI", "KOMISIONA">>) THEN "FEE"
    ELSE IF \/ HasKeyword(description, <<"TAKSA", "IZH.">>)
            \/ HasKeyword(description, <<"TAKSA">>) THEN "TRANSFER_FEE"
    ELSE IF \/ HasKeyword(description, <<"PRODAZHBA", "NA", "VALUTA">>)
            \/ HasKeyword(description, <<"POKUPKA", "NA", "VALUTA">>) THEN "CURRENCY_EXCHANGE"
    ELSE "UNKNOWN"

_detect_transaction_type(description) ==
    IF HasKeyword(description, <<"SEPA", "POLUCHEN">>) THEN "SEPA_INCOMING"
    ELSE IF \/ HasKeyword(description, <<"IZHODYASHT", "VALUTEN", "PREVOD">>)
            \/ HasKeyword(description, <<"IZHODYASHT">>) THEN "SEPA_OUTGOING"
    ELSE IF HasKeyword(description, <<"KARTOVA", "TRANZAKTSIYA">>) THEN "CARD_TRANSACTION"
    ELSE IF HasKeyword(description, <<"SABRANA", "TAKSA", "ILI", "KOMISIONA">>) THEN "FEE"
    ELSE IF \/ HasKeyword(description, <<"TAKSA", "IZH.">>)
            \/ HasKeyword(description, <<"TAKSA">>) THEN "TRANSFER_FEE"
    ELSE IF HasKeyword(description, <<"PREVOD">>) THEN "INTERNAL_TRANSFER"
    ELSE IF \/ HasKeyword(description, <<"PRODAZHBA", "NA", "VALUTA">>)
            \/ HasKeyword(description, <<"POKUPKA", "NA", "VALUTA">>) THEN "CURRENCY_EXCHANGE"
    ELSE "UNKNOWN"

\* The validator and the extractor are not in use.
ValidatorIdle ==
    /\ statement = [opening_balance |-> Balance(0, 0), closing_balance |-> Balance(0, 0),
                    turnover |-> Turnover(Balance(0, 0), Balance(0, 0))]
    /\ transactions = <<>>
    /\ result = NoResult

\* Pieces of description text: the keywords, parts of keywords, other words.
Phrases == {
    <<"SEPA", "POLUCHEN">>, <<"IZHODYASHT", "VALUTEN", "PREVOD">>, <<"IZHODYASHT">>,
    <<"KARTOVA", "TRANZAKTSIYA">>, <<"SABRANA", "TAKSA", "ILI", "KOMISIONA">>,
    <<"TAKSA", "IZH.">>, <<"TAKSA">>, <<"PREVOD">>, <<"PRODAZHBA", "NA", "VALUTA">>,
    <<"POKUPKA", "NA", "VALUTA">>,
    <<"SEPA">>, <<"POLUCHEN">>, <<"prevod">>, <<"PREVODI">>, <<"NA", "VALUTA">>,
    <<"ACME">>, <<"REF1">> }

\* most phrases of a description handed to the classifier
MaxPhrases == 2

\* The descriptions of at most n phrases.
RECURSIVE DescriptionsOf(_)
DescriptionsOf(n) ==
    IF n = 0 THEN { <<>> }
    ELSE DescriptionsOf(n - 1)
         \cup { d \o ph : d \in DescriptionsOf(n - 1), ph \in Phrases }

InitClassify ==
    /\ class_input \in DescriptionsOf(MaxPhrases)
    /\ detected_type = NoCall
    /\ ValidatorIdle /\ ExtractorIdle
    /\ CounterpartyIdle /\ SummaryIdle /\ InstancesIdle /\ ImporterIdle

\* A call of _detect_transaction_type(description).
DetectTransactionType ==
    /\ detected_type = NoCall
    /\ detected_type' = _detect_transaction_type(class_input)
    /\ UNCHANGED <<class_input, counterparty_vars, summary_vars, extractors, importer_vars,
                   statement, transactions, result, extractor_vars>>

NextClassify == DetectTransactionType

SpecClassify == InitClassify /\ [][NextClassify]_vars

(***************************************************************************)
(* extractor.py : _extract_counterparty                                    *)
(***************************************************************************)
\* Tokens the patterns of _extract_counterparty tell apart.
\* Tokens that hold the bank marker, in any case of letters; in the last one the
\* marker is followed by further letters, not by a colon or white space.
BankMarkers == {"OT BANKA:", "OT BANKA", "ot banka:", "OT BANKATA"}
SeparatedBankMarkers == {"OT BANKA:", "OT BANKA", "ot banka:"}
IbanTokens == {"BG41UBBS80021012345678"}
SkipTokens == {"PO123456", "10077271-556010-20260105", "PREVOD"}
LongDigitTokens == {"2400003707"}
ShortDigitTokens == {"123"}
MerchantTokens == {"MERCHANT-CITY-BG"}
InvoiceTokens == {"F."}
\* Tokens of at most two characters, and tokens of digits and punctuation only.
ShortTokens == {"1", "x"}
NumericTokens == LongDigitTokens \cup ShortDigitTokens \cup {"1", "12-34"}

Unset == <<>>

NoCounterparty == [none |-> TRUE, name |-> Unset, reference |-> Unset, bank |-> Unset, iban |-> Unset]

\* Index of the first token of line in S, or 0.
FirstIn(line, S) ==
    IF \E k \in 1..Len(line) : line[k] \in S
    THEN CHOOSE k \in 1..Len(line) : line[k] \in S /\ \A j \in 1..(k - 1) : line[j] \notin S
    ELSE 0

\* any(p.match(line) for p in SKIP_COUNTERPARTY_PATTERNS): the whole line is one.
ShouldSkip(line) ==
    \/ line = <<"KARTOVA", "TRANZAKTSIYA">>
    \/ Len(line) = 1 /\ line[1] \in SkipTokens

\* len(line) > 2
LongerThanTwo(line) == Len(line) >= 2 \/ (Len(line) = 1 /\ line[1] \notin ShortTokens)

\* re.match(r"^[\d\-/\.\s]+$", line)
PurelyNumeric(line) == Len(line) >= 1 /\ \A k \in 1..Len(line) : line[k] \in NumericTokens

\* A slip in the bank rule: no continue, the line goes on to the name rule.
CounterpartyLine_bank_falls_through(cp, line, tx_type) ==
    IF line = <<>> THEN cp
    ELSE IF FirstIn(line, BankMarkers) > 0 THEN
        LET after  == SubSeq(line, FirstIn(line, SeparatedBankMarkers) + 1, Len(line))
            banked == IF FirstIn(line, SeparatedBankMarkers) > 0 /\ after # <<>>
                      THEN [cp EXCEPT !.bank = after] ELSE cp
        IN  IF banked.name = Unset THEN [banked EXCEPT !.name = line] ELSE banked
    ELSE IF FirstIn(line, IbanTokens) > 0 THEN
        [cp EXCEPT !.iban = <<line[FirstIn(line, IbanTokens)]>>]
    ELSE IF ShouldSkip(line) THEN cp
    ELSE IF Len(line) = 1 /\ line[1] \in LongDigitTokens THEN
        (IF cp.reference = Unset THEN [cp EXCEPT !.reference = line] ELSE cp)
    ELSE IF tx_type = "CARD_TRANSACTION" /\ Len(line) = 1 /\ line[1] \in MerchantTokens THEN
        (IF cp.name = Unset THEN [cp EXCEPT !.name = line] ELSE cp)
    ELSE IF cp.name = Unset /\ LongerThanTwo(line) /\ ~PurelyNumeric(line) THEN
        [cp EXCEPT !.name = line]
    ELSE IF cp.reference = Unset /\ cp.name # Unset
            /\ (FirstIn(line, InvoiceTokens) > 0
                \/ (Len(line) = 1 /\ line[1] \in LongDigitTokens \cup ShortDigitTokens)) THEN
        [cp EXCEPT !.reference = line]
    ELSE cp

\* A slip in the order: the IBAN search stands before the bank marker test.
CounterpartyLine_iban_first(cp, line, tx_type) ==
    IF line = <<>> THEN cp
    ELSE IF FirstIn(line, IbanTokens) > 0 THEN
        [cp EXCEPT !.iban = <<line[FirstIn(line, IbanTokens)]>>]
    ELSE IF FirstIn(line, BankMarkers) > 0 THEN
        LET after == SubSeq(line, FirstIn(line, SeparatedBankMarkers) + 1, Len(line))
        IN  IF FirstIn(line, SeparatedBankMarkers) > 0 /\ after # <<>>
            THEN [cp EXCEPT !.bank = after] ELSE cp
    ELSE IF ShouldSkip(line) THEN cp
    ELSE IF Len(line) = 1 /\ line[1] \in LongDigitTokens THEN
        (IF cp.reference = Unset THEN [cp EXCEPT !.reference = line] ELSE cp)
    ELSE IF tx_type = "CARD_TRANSACTION" /\ Len(line) = 1 /\ line[1] \in MerchantTokens THEN
        (IF cp.name = Unset THEN [cp EXCEPT !.name = line] ELSE cp)
    ELSE IF cp.name = Unset /\ LongerThanTwo(line) /\ ~PurelyNumeric(line) THEN
        [cp EXCEPT !.name = line]
    ELSE IF cp.reference = Unset /\ cp.name # Unset
            /\ (FirstIn(line, InvoiceTokens) > 0
                \/ (Len(line) = 1 /\ line[1] \in LongDigitTokens \cup ShortDigitTokens)) THEN
        [cp EXCEPT !.reference = line]
    ELSE cp

\* The body of the loop for one line at index >= 1, on the fields so far.
CounterpartyLine(cp, line, tx_type) ==
    IF line = <<>> THEN cp
    ELSE IF FirstIn(line, BankMarkers) > 0 THEN
        LET after == SubSeq(line, FirstIn(line, SeparatedBankMarkers) + 1, Len(line))
        IN  IF FirstIn(line, SeparatedBankMarkers) > 0 /\ after # <<>>
            THEN [cp EXCEPT !.bank = after] ELSE cp
    ELSE IF FirstIn(line, IbanTokens) > 0 THEN
        [cp EXCEPT !.iban = <<line[FirstIn(line, IbanTokens)]>>]
    ELSE IF ShouldSkip(line) THEN cp
    ELSE IF Len(line) = 1 /\ line[1] \in LongDigitTokens THEN
        (IF cp.reference = Unset THEN [cp EXCEPT !.reference = line] ELSE cp)
    ELSE IF tx_type = "CARD_TRANSACTION" /\ Len(line) = 1 /\ line[1] \in MerchantTokens THEN
        (IF cp.name = Unset THEN [cp EXCEPT !.name = line] ELSE cp)
    ELSE IF cp.name = Unset /\ LongerThanTwo(line) /\ ~PurelyNumeric(line) THEN
        [cp EXCEPT !.name = line]
    ELSE IF cp.reference = Unset /\ cp.name # Unset
            /\ (FirstIn(line, InvoiceTokens) > 0
                \/ (Len(line) = 1 /\ line[1] \in LongDigitTokens \cup ShortDigitTokens)) THEN
        [cp EXCEPT !.reference = line]
    ELSE cp

\* The loop over description_lines from index k on; index 0 (here 1) is skipped.
RECURSIVE CounterpartyLoop(_, _, _, _)
CounterpartyLoop(cp, lines, k, tx_type) ==
    IF k > Len(lines) THEN cp
    ELSE CounterpartyLoop(IF k = 1 THEN cp ELSE CounterpartyLine(cp, lines[k], tx_type),
                          lines, k + 1, tx_type)

\* A slip at the end: a Counterparty is returned whatever was found.
_extract_counterparty_always(lines, tx_type) ==
    [CounterpartyLoop(NoCounterparty, lines, 1, tx_type) EXCEPT !.none = FALSE]

\* Lines 157-224: the loop from empty fields, then None unless a field is set.
_extract_counterparty(lines, tx_type) ==
    LET cp == CounterpartyLoop(NoCounterparty, lines, 1, tx_type)
    IN  IF cp.name # Unset \/ cp.reference # Unset \/ cp.bank # Unset \/ cp.iban # Unset
        THEN [cp EXCEPT !.none = FALSE]
        ELSE NoCounterparty

\* The description lines handed to _extract_counterparty on its own.
CounterpartyLineSet == {
    <<"KARTOVA", "TRANZAKTSIYA">>,
    <<"MERCHANT-CITY-BG">>,
    <<"ACME">>,
    <<"OT BANKA:", "UBB">>,
    <<"ot banka:", "DSK">>,
    <<"OT BANKA:">>,
    <<"OT BANKATA", "ACME">>,
    <<"UBBSBGSF", "BG41UBBS80021012345678">>,
    <<"OT BANKA:", "BG41UBBS80021012345678">>,
    <<"2400003707">>,
    <<"F.", "2400003707">>,
    <<"123">>,
    <<"PO123456">>,
    <<"x">>,
    <<>> }

\* most description lines handed to _extract_counterparty on its own
MaxCounterpartyLines == 3

InitCounterparty ==
    /\ cp_lines \in UNION { [1..n -> CounterpartyLineSet] : n \in 0..MaxCounterpartyLines }
    /\ cp_type \in {"CARD_TRANSACTION", "SEPA_INCOMING"}
    /\ counterparty = Pending
    /\ ValidatorIdle /\ ExtractorIdle
    /\ ClassifierIdle /\ SummaryIdle /\ InstancesIdle /\ ImporterIdle

\* A call of _extract_counterparty(description_lines, tx_type).
ExtractCounterparty ==
    /\ counterparty = Pending
    /\ counterparty' = _extract_counterparty(cp_lines, cp_type)
    /\ UNCHANGED <<cp_lines, cp_type, classifier_vars, summary_vars, extractors, importer_vars,
                   statement, transactions, result, extractor_vars>>

NextCounterparty == ExtractCounterparty

SpecCounterparty == InitCounterparty /\ [][NextCounterparty]_vars

(***************************************************************************)
(* extractor.py : extract_transactions                                     *)
(***************************************************************************)
NoMatch == "NoMatch"

Lines == pages_text[cur_page]

Line == Lines[cur_line]

InPage == cur_page <= Len(pages_text) /\ cur_line <= Len(Lines)

\* A slip in the sign test: is_debit read from the BGN number.
BuildTransaction_bgn_sign(start, lines, amount) ==
    LET groups       == DateGroups(start[1])
        posting_date == _parse_posting_date(groups.posting)
        value_date   == _parse_short_date(groups.value, posting_date.year)
        full_desc    == Join(lines)
        first        == IF lines # <<>> THEN lines[1] ELSE <<>>
        eur_amount   == _parse_decimal(AmountGroups(amount).eur).value
        bgn_amount   == _parse_decimal(AmountGroups(amount).bgn).value
        trans_type   == _detect_transaction_type(full_desc)
    IN  [posting_date |-> [year |-> posting_date.year, month |-> posting_date.month,
                           day |-> posting_date.day],
         value_date   |-> [year |-> value_date.year, month |-> value_date.month,
                           day |-> value_date.day],
         reference    |-> IF first # <<>> THEN first[1] ELSE "",
         type         |-> trans_type,
         description  |-> IF first # <<>> THEN Tail(first) ELSE <<>>,
         raw_description |-> full_desc,
         counterparty |-> _extract_counterparty(lines, trans_type),
         amount       |-> Balance(Abs(eur_amount), Abs(bgn_amount)),
         is_debit     |-> bgn_amount < 0]

\* Lines 476-515: the Transaction built from the locals, when nothing raises.
BuildTransaction(start, lines, amount) ==
    LET groups       == DateGroups(start[1])
        posting_date == _parse_posting_date(groups.posting)
        value_date   == _parse_short_date(groups.value, posting_date.year)
        full_desc    == Join(lines)
        first        == IF lines # <<>> THEN lines[1] ELSE <<>>
        eur_amount   == _parse_decimal(AmountGroups(amount).eur).value
        bgn_amount   == _parse_decimal(AmountGroups(amount).bgn).value
        trans_type   == _detect_transaction_type(full_desc)
    IN  [posting_date |-> [year |-> posting_date.year, month |-> posting_date.month,
                           day |-> posting_date.day],
         value_date   |-> [year |-> value_date.year, month |-> value_date.month,
                           day |-> value_date.day],
         reference    |-> IF first # <<>> THEN first[1] ELSE "",
         type         |-> trans_type,
         description  |-> IF first # <<>> THEN Tail(first) ELSE <<>>,
         raw_description |-> full_desc,
         counterparty |-> _extract_counterparty(lines, trans_type),
         amount       |-> Balance(Abs(eur_amount), Abs(bgn_amount)),
         is_debit     |-> eur_amount < 0]

\* The first exception lines 476-489 raise, or "none".
ParseFailure(start, amount) ==
    LET groups       == DateGroups(start[1])
        posting_date == _parse_posting_date(groups.posting)
    IN  IF ~posting_date.ok THEN "ValueError"
        ELSE IF ~_parse_short_date(groups.value, posting_date.year).ok THEN "ValueError"
        ELSE IF ~_parse_decimal(AmountGroups(amount).eur).ok THEN "InvalidOperation"
        ELSE IF ~_parse_decimal(AmountGroups(amount).bgn).ok THEN "InvalidOperation"
        ELSE "none"

\* Lines 399-406: a line that starts no transaction is passed over.
ScanLine ==
    /\ pc = "scan" /\ InPage
    /\ ~IsTransactionStart(Line)
    /\ cur_line' = cur_line + 1
    /\ UNCHANGED <<other_vars, statement, result, pages_text, pc, cur_page, start_line, start_at, description_lines,
                   amount_match, raised, origin, transactions>>

\* A slip: the i += 1 before the inner loop is missing.
StartWithoutAmount_stays ==
    /\ pc = "scan" /\ InPage
    /\ IsTransactionStart(Line) /\ ~HasAmount(Line)
    /\ start_line' = Line
    /\ start_at' = <<cur_page, cur_line>>
    /\ description_lines' = <<RestOfLine(Line)>>
    /\ amount_match' = NoMatch
    /\ pc' = "collecting"
    /\ UNCHANGED <<other_vars, statement, result, pages_text, cur_page, cur_line, raised, origin,
                   transactions>>

\* Lines 408-422: a start line without an amount opens the multi-line branch.
StartWithoutAmount ==
    /\ pc = "scan" /\ InPage
    /\ IsTransactionStart(Line) /\ ~HasAmount(Line)
    /\ start_line' = Line
    /\ start_at' = <<cur_page, cur_line>>
    /\ description_lines' = <<RestOfLine(Line)>>
    /\ amount_match' = NoMatch
    /\ cur_line' = cur_line + 1
    /\ pc' = "collecting"
    /\ UNCHANGED <<other_vars, statement, result, pages_text, cur_page, raised, origin, transactions>>

\* Lines 408-418, 446-451: a start line with the amount closes on that line.
StartWithAmount ==
    /\ pc = "scan" /\ InPage
    /\ IsTransactionStart(Line) /\ HasAmount(Line)
    /\ start_line' = Line
    /\ start_at' = <<cur_page, cur_line>>
    /\ amount_match' = AmountOf(Line)
    /\ description_lines' = <<DescPart(Line)>>
    /\ cur_line' = cur_line + 1
    /\ pc' = "trailing"
    /\ UNCHANGED <<other_vars, statement, result, pages_text, cur_page, raised, origin, transactions>>

\* Another design: a candidate without amount is an error.
CollectStop_raises ==
    /\ pc = "collecting" /\ InPage
    /\ IsTransactionStart(Line)
    /\ raised' = "ValueError"
    /\ pc' = "raised"
    /\ UNCHANGED <<other_vars, statement, result, pages_text, cur_page, cur_line, start_line, start_at,
                   description_lines, amount_match, origin, transactions>>

\* A slip: the new start line is consumed with the candidate it ends.
CollectStop_consumes ==
    /\ pc = "collecting" /\ InPage
    /\ IsTransactionStart(Line)
    /\ cur_line' = cur_line + 1
    /\ pc' = "scan"
    /\ UNCHANGED <<other_vars, statement, result, pages_text, cur_page, start_line, start_at,
                   description_lines, amount_match, raised, origin, transactions>>

\* Lines 427-428 and 473-474: a new start line ends the candidate, which had
\* no amount and is dropped; the outer loop goes on at that start line.
CollectStop ==
    /\ pc = "collecting" /\ InPage
    /\ IsTransactionStart(Line)
    /\ pc' = "scan"
    /\ UNCHANGED <<other_vars, statement, result, pages_text, cur_page, cur_line, start_line, start_at, description_lines,
                   amount_match, raised, origin, transactions>>

\* Lines 431-438: the amount is found; the text before it joins the description.
CollectAmount ==
    /\ pc = "collecting" /\ InPage
    /\ ~IsTransactionStart(Line) /\ HasAmount(Line)
    /\ amount_match' = AmountOf(Line)
    /\ description_lines' = IF BeforeAmount(Line) # <<>>
                            THEN Append(description_lines, BeforeAmount(Line))
                            ELSE description_lines
    /\ cur_line' = cur_line + 1
    /\ pc' = "parse"
    /\ UNCHANGED <<other_vars, statement, result, pages_text, cur_page, start_line, start_at, raised, origin, transactions>>

\* Lines 439-445: a line without amount joins the description unless skipped.
CollectText ==
    /\ pc = "collecting" /\ InPage
    /\ ~IsTransactionStart(Line) /\ ~HasAmount(Line)
    /\ description_lines' = IF ~SkippedWhileCollecting(Line)
                            THEN Append(description_lines, Line)
                            ELSE description_lines
    /\ cur_line' = cur_line + 1
    /\ UNCHANGED <<other_vars, statement, result, pages_text, pc, cur_page, start_line, start_at, amount_match, raised,
                   origin, transactions>>

\* Another design: a candidate without amount at the end of its page goes on
\* looking in the next page.
CollectEnd_carries ==
    /\ pc = "collecting" /\ ~InPage
    /\ IF cur_page < Len(pages_text)
       THEN cur_page' = cur_page + 1 /\ cur_line' = 1 /\ pc' = pc
       ELSE cur_page' = cur_page /\ cur_line' = cur_line /\ pc' = "scan"
    /\ UNCHANGED <<other_vars, statement, result, pages_text, start_line, start_at,
                   description_lines, amount_match, raised, origin, transactions>>

\* Lines 423 and 473-474: the page ends before an amount; the candidate is dropped.
CollectEnd ==
    /\ pc = "collecting" /\ ~InPage
    /\ pc' = "scan"
    /\ UNCHANGED <<other_vars, statement, result, pages_text, cur_page, cur_line, start_line, start_at, description_lines,
                   amount_match, raised, origin, transactions>>

\* Lines 463-468: page headers and footers after a closed transaction are skipped.
TrailSkip ==
    /\ pc = "trailing" /\ InPage
    /\ ~IsTransactionStart(Line) /\ SkippedWhileTrailing(Line)
    /\ cur_line' = cur_line + 1
    /\ UNCHANGED <<other_vars, statement, result, pages_text, pc, cur_page, start_line, start_at, description_lines,
                   amount_match, raised, origin, transactions>>

\* Lines 470-471: any other line after a closed transaction joins its description.
TrailText ==
    /\ pc = "trailing" /\ InPage
    /\ ~IsTransactionStart(Line) /\ ~SkippedWhileTrailing(Line)
    /\ description_lines' = Append(description_lines, Line)
    /\ cur_line' = cur_line + 1
    /\ UNCHANGED <<other_vars, statement, result, pages_text, pc, cur_page, start_line, start_at, amount_match, raised,
                   origin, transactions>>

\* Lines 455-460: the trailing lines end at the next start line or with the page.
TrailStop ==
    /\ pc = "trailing"
    /\ IF InPage THEN IsTransactionStart(Line) ELSE TRUE
    /\ pc' = "parse"
    /\ UNCHANGED <<other_vars, statement, result, pages_text, cur_page, cur_line, start_line, start_at, description_lines,
                   amount_match, raised, origin, transactions>>

\* A slip in the list operation: insert(0, ...) for append(...).
ParseTransaction_prepend ==
    /\ pc = "parse"
    /\ ParseFailure(start_line, amount_match) = "none"
    /\ transactions' = <<BuildTransaction(start_line, description_lines, amount_match)>>
                        \o transactions
    /\ origin' = <<start_at>> \o origin
    /\ pc' = "scan"
    /\ UNCHANGED <<other_vars, statement, result, pages_text, cur_page, cur_line, start_line, start_at,
                   description_lines, amount_match, raised>>

\* Lines 476-517: the transaction is parsed and appended.
ParseTransaction ==
    /\ pc = "parse"
    /\ ParseFailure(start_line, amount_match) = "none"
    /\ transactions' = Append(transactions,
                              BuildTransaction(start_line, description_lines, amount_match))
    /\ origin' = Append(origin, start_at)
    /\ pc' = "scan"
    /\ UNCHANGED <<other_vars, statement, result, pages_text, cur_page, cur_line, start_line, start_at, description_lines,
                   amount_match, raised>>

\* Lines 476-489: a date or a number that does not parse raises out of the method.
ParseRaises ==
    /\ pc = "parse"
    /\ ParseFailure(start_line, amount_match) # "none"
    /\ raised' = ParseFailure(start_line, amount_match)
    /\ pc' = "raised"
    /\ UNCHANGED <<other_vars, statement, result, pages_text, cur_page, cur_line, start_line, start_at, description_lines,
                   amount_match, origin, transactions>>

\* Lines 395-399: the while loop ends with the page; the for loop takes the next.
NextPage ==
    /\ pc = "scan"
    /\ cur_page <= Len(pages_text) /\ cur_line > Len(Lines)
    /\ cur_page' = cur_page + 1
    /\ cur_line' = 1
    /\ UNCHANGED <<other_vars, statement, result, pages_text, pc, start_line, start_at, description_lines, amount_match,
                   raised, origin, transactions>>

\* Line 519: return transactions.
Return ==
    /\ pc = "scan"
    /\ cur_page > Len(pages_text)
    /\ pc' = "done"
    /\ UNCHANGED <<other_vars, statement, result, pages_text, cur_page, cur_line, start_line, start_at, description_lines,
                   amount_match, raised, origin, transactions>>

(***************************************************************************)
(* extractor.py : extract_transactions as a function of the pages, for the  *)
(* specifications in which a whole page is read in one step                *)
(***************************************************************************)
\* Lines 423-445 from line j on: the amount found and the description lines
\* collected, or no match at a new start line or at the end of the page.
RECURSIVE CollectFrom(_, _, _)
CollectFrom(lines, j, desc) ==
    IF j > Len(lines) THEN [amount |-> NoMatch, desc |-> desc, next |-> j]
    ELSE IF IsTransactionStart(lines[j]) THEN [amount |-> NoMatch, desc |-> desc, next |-> j]
    ELSE IF HasAmount(lines[j])
         THEN [amount |-> AmountOf(lines[j]),
               desc   |-> IF BeforeAmount(lines[j]) # <<>>
                          THEN Append(desc, BeforeAmount(lines[j])) ELSE desc,
               next   |-> j + 1]
    ELSE CollectFrom(lines, j + 1,
                     IF ~SkippedWhileCollecting(lines[j]) THEN Append(desc, lines[j]) ELSE desc)

\* Lines 455-471 from line j on: the trailing lines of a closed transaction.
RECURSIVE TrailFrom(_, _, _)
TrailFrom(lines, j, desc) ==
    IF j > Len(lines) THEN [desc |-> desc, next |-> j]
    ELSE IF IsTransactionStart(lines[j]) THEN [desc |-> desc, next |-> j]
    ELSE TrailFrom(lines, j + 1,
                   IF SkippedWhileTrailing(lines[j]) THEN desc ELSE Append(desc, lines[j]))

\* Lines 399-517 from line k on: the list with the page's transactions
\* appended, or the list so far and the exception raised.
RECURSIVE ScanFrom(_, _, _)
ScanFrom(lines, k, out) ==
    IF k > Len(lines) THEN [raised |-> "none", transactions |-> out]
    ELSE IF ~IsTransactionStart(lines[k]) THEN ScanFrom(lines, k + 1, out)
    ELSE LET block == IF HasAmount(lines[k])
                      THEN [amount |-> AmountOf(lines[k]),
                            desc   |-> TrailFrom(lines, k + 1, <<DescPart(lines[k])>>).desc,
                            next   |-> TrailFrom(lines, k + 1, <<DescPart(lines[k])>>).next]
                      ELSE CollectFrom(lines, k + 1, <<RestOfLine(lines[k])>>)
         IN  IF block.amount = NoMatch THEN ScanFrom(lines, block.next, out)
             ELSE IF ParseFailure(lines[k], block.amount) # "none"
                  THEN [raised |-> ParseFailure(lines[k], block.amount), transactions |-> out]
             ELSE ScanFrom(lines, block.next,
                           Append(out, BuildTransaction(lines[k], block.desc, block.amount)))

\* Lines 395-519 from page k on.
RECURSIVE PagesFrom(_, _, _)
PagesFrom(pages, k, out) ==
    IF k > Len(pages) THEN [raised |-> "none", transactions |-> out]
    ELSE LET page == ScanFrom(pages[k], 1, out)
         IN  IF page.raised # "none" THEN page ELSE PagesFrom(pages, k + 1, page.transactions)

\* extract_transactions on the pages loaded.
extract_transactions(pages) == PagesFrom(pages, 1, <<>>)

\* Line 391: extract_transactions(self, statement_year); no line of the body
\* reads statement_year.
extract_transactions_of_year(pages, statement_year) == extract_transactions(pages)

(***************************************************************************)
(* extractor.py : extract_footer                                           *)
(*                                                                         *)
(* The footer patterns are searched in the whole text of a page, where     *)
(* \s* also runs over line ends: a page is read as the sequence of its     *)
(* tokens, with the positions that begin a line marked.                    *)
(***************************************************************************)
\* What "([\d,\.]+)\s*EUR\s*/\s*([\d,\.]+)\s*BGN" matches: an amount of two
\* numbers without sign.
UnsignedAmountTokens == {"200.00 EUR / 391.17 BGN", "7.00 EUR / 13.69 BGN",
                         "1,150.00 EUR / 2,249.21 BGN", "1.2.3 EUR / 4.00 BGN"}

\* Text that ends in "BGN": the amounts of either sign.
EndsInBGN == AmountTokens

\* The number of tokens of the first k lines of a page.
RECURSIVE TokensIn(_, _)
TokensIn(page, k) == IF k = 0 THEN 0 ELSE Len(page[k]) + TokensIn(page, k - 1)

\* The positions, in the tokens of a page, that begin a line.
LineStarts(page) == { TokensIn(page, k - 1) + 1 : k \in { j \in 1..Len(page) : page[j] # <<>> } }

\* Balance(eur=_parse_decimal(group(1)), bgn=_parse_decimal(group(2))) of a match.
ParseBalance(tok) ==
    LET eur == _parse_decimal(AmountGroups(tok).eur)
        bgn == _parse_decimal(AmountGroups(tok).bgn)
    IN  [ok |-> eur.ok /\ bgn.ok, value |-> Balance(eur.value, bgn.value)]

\* The positions where "<label>\s*<unsigned amount>" matches in the tokens.
LabelMatches(toks, label) ==
    { k \in 1..(Len(toks) - 1) : toks[k] = label /\ toks[k + 1] \in UnsignedAmountTokens }

\* The least of a non-empty set of positions: what search() finds.
First(S) == CHOOSE k \in S : \A j \in S : k <= j

Zero == Balance(0, 0)

\* A slip in the direction of the scan: the first page with the marker is taken.
last_page_forward(pages) ==
    LET marked == { k \in 1..Len(pages) : \E j \in 1..Len(Join(pages[k])) :
                        Join(pages[k])[j] = "Krayno saldo:" }
    IN  IF marked # {} THEN pages[First(marked)]
        ELSE IF pages # <<>> THEN pages[Len(pages)] ELSE <<>>

\* Lines 319-328: the page the footer is read from.
last_page(pages) ==
    LET marked == { k \in 1..Len(pages) : \E j \in 1..Len(Join(pages[k])) :
                        Join(pages[k])[j] = "Krayno saldo:" }
    IN  IF marked # {} THEN pages[CHOOSE k \in marked : \A j \in marked : j <= k]
        ELSE IF pages # <<>> THEN pages[Len(pages)] ELSE <<>>

\* Lines 330-389 on the page chosen: the three footer values, or the exception.
FooterOfPage(page) ==
    LET toks     == Join(page)
        closing  == LabelMatches(toks, "Krayno saldo:")
        t_debit  == LabelMatches(toks, "Debit:") \cap LineStarts(page)
        t_credit == LabelMatches(toks, "Kredit:") \cap LineStarts(page)
        a_debit  == { k \in LabelMatches(toks, "Debit:") : k > 1 /\ toks[k - 1] \in EndsInBGN }
        credits  == LabelMatches(toks, "Kredit:")
        second   == First(credits \ {First(credits)})
        parsed   == (IF closing # {} THEN {toks[First(closing) + 1]} ELSE {})
                    \cup (IF t_debit # {} /\ t_credit # {}
                          THEN {toks[First(t_debit) + 1], toks[First(t_credit) + 1]} ELSE {})
                    \cup (IF a_debit # {} /\ Cardinality(credits) >= 2
                          THEN {toks[First(a_debit) + 1], toks[second + 1]} ELSE {})
    IN  IF \E tok \in parsed : ~ParseBalance(tok).ok
        THEN [raised |-> "InvalidOperation"]
        ELSE [raised |-> "none",
              closing_balance |->
                  IF closing # {} THEN ParseBalance(toks[First(closing) + 1]).value ELSE Zero,
              turnover |->
                  IF t_debit # {} /\ t_credit # {}
                  THEN Turnover(ParseBalance(toks[First(t_debit) + 1]).value,
                                ParseBalance(toks[First(t_credit) + 1]).value)
                  ELSE Turnover(Zero, Zero),
              accumulated_turnover |->
                  IF a_debit # {} /\ Cardinality(credits) >= 2
                  THEN Turnover(ParseBalance(toks[First(a_debit) + 1]).value,
                                ParseBalance(toks[second + 1]).value)
                  ELSE Turnover(Zero, Zero)]

\* extract_footer on the pages loaded.
extract_footer(pages) == FooterOfPage(last_page(pages))

\* The lines the pages of a footer are made of.
FooterLineSet == {
    <<"Krayno saldo:", "1,150.00 EUR / 2,249.21 BGN">>,
    <<"Krayno saldo:", "7.00 EUR / 13.69 BGN">>,
    <<"Krayno saldo:", "-50.00 EUR / -97.79 BGN">>,
    <<"Krayno saldo:", "1.2.3 EUR / 4.00 BGN">>,
    <<"Debit:", "7.00 EUR / 13.69 BGN", "Debit:", "200.00 EUR / 391.17 BGN">>,
    <<"Kredit:", "200.00 EUR / 391.17 BGN", "Kredit:", "1,150.00 EUR / 2,249.21 BGN">>,
    <<"Kredit:", "7.00 EUR / 13.69 BGN">>,
    <<"Obshto", "Kredit:", "7.00 EUR / 13.69 BGN">>,
    <<"Belezhka">> }

\* extract_transactions is not running.
ScannerIdle ==
    /\ pc = "idle"
    /\ cur_page = 1
    /\ cur_line = 1
    /\ start_line = <<>>
    /\ start_at = <<0, 0>>
    /\ description_lines = <<>>
    /\ amount_match = "NoMatch"
    /\ raised = "none"
    /\ origin = <<>>

(***************************************************************************)
(* extractor.py : extract_header                                           *)
(***************************************************************************)
\* "DD MON YYYY" as the period and statement patterns capture it:
\* (\d{2})\s+(\w+)\s+(\d{4}).
DateTexts == {"01 YAN 2026", "31 YAN 2026", "31 APR 2026", "05 XYZ 2026", "29 FEV 2025",
              "01 YAN 1999", "31 YAN 1999"}

\* The three groups of such a text: int(day), the month text, int(year).
DateTextGroups(tok) ==
    CASE tok = "01 YAN 2026" -> [day |-> 1,  month |-> "YAN", year |-> 2026]
      [] tok = "31 YAN 2026" -> [day |-> 31, month |-> "YAN", year |-> 2026]
      [] tok = "31 APR 2026" -> [day |-> 31, month |-> "APR", year |-> 2026]
      [] tok = "05 XYZ 2026" -> [day |-> 5,  month |-> "XYZ", year |-> 2026]
      [] tok = "29 FEV 2025" -> [day |-> 29, month |-> "FEV", year |-> 2025]
      [] tok = "01 YAN 1999" -> [day |-> 1,  month |-> "YAN", year |-> 1999]
      [] tok = "31 YAN 1999" -> [day |-> 31, month |-> "YAN", year |-> 1999]

\* MONTH_MAP.get(month_str.upper(), 1)
_parse_month(month_str) ==
    CASE month_str = "YAN" -> 1
      [] month_str = "FEV" -> 2
      [] month_str = "APR" -> 4
      [] OTHER             -> 1

\* _parse_date(day, month, year) on the groups of a date text.
_parse_date(tok) ==
    date(DateTextGroups(tok).year, _parse_month(DateTextGroups(tok).month), DateTextGroups(tok).day)

\* A date as the header holds it.
DateValue(d) == [year |-> d.year, month |-> d.month, day |-> d.day]

\* date.today() as a date value.
TodayValue(t) == [year |-> t[1], month |-> t[2], day |-> t[3]]

\* Tokens of digits (\d+), and tokens that begin with four digits (\d{4}).
HeaderDigitTokens == {"12345", "1000", "7"}
FourDigitTokens == {"12345", "1000"}

\* What "Valuta\s+([A-Z]{3})" captures from the token after the label.
CurrencyOf(tok) ==
    CASE tok = "USD"  -> "USD"
      [] tok = "EURO" -> "EUR"
      [] OTHER        -> ""

\* The positions k of the holder label where ACCOUNT_HOLDER_PATTERN matches:
\* the label, a code of digits, a name of at least one token on one line, and
\* then a token of four digits or the word DAO.
HolderEnds(page, toks, k) ==
    { t \in (k + 3)..Len(toks) :
        /\ toks[t] \in FourDigitTokens \cup {"DAO"}
        /\ \A j \in (k + 3)..(t - 1) : j \notin LineStarts(page) }

HolderMatches(page, toks) ==
    { k \in 1..(Len(toks) - 3) :
        /\ toks[k] = "Titulyar na smetkata"
        /\ toks[k + 1] \in HeaderDigitTokens
        /\ HolderEnds(page, toks, k) # {} }

\* The positions of the address label that have the IBAN label after the
\* first token of the address: ADDRESS_PATTERN, with its lookahead.
AddressEnds(toks, k) == { t \in (k + 2)..Len(toks) : toks[t] = "IBAN:" }

AddressMatches(toks) == { k \in 1..Len(toks) : toks[k] = "Adres" /\ AddressEnds(toks, k) # {} }

IbanMatches(toks) == { k \in 1..(Len(toks) - 1) : toks[k] = "IBAN:" /\ toks[k + 1] \in IbanTokens }

CurrencyMatches(toks) ==
    { k \in 1..(Len(toks) - 1) : toks[k] = "Valuta" /\ CurrencyOf(toks[k + 1]) # "" }

PeriodMatches(toks) ==
    { k \in 1..(Len(toks) - 4) :
        /\ toks[k] = "Period na izvlechenieto:" /\ toks[k + 1] = "OT"
        /\ toks[k + 2] \in DateTexts /\ toks[k + 3] = "DO" /\ toks[k + 4] \in DateTexts }

StatementMatches(toks) ==
    { k \in 1..(Len(toks) - 3) :
        /\ toks[k] = "Poreden nomer / Data:" /\ toks[k + 1] \in HeaderDigitTokens
        /\ toks[k + 2] = "/" /\ toks[k + 3] \in DateTexts }

\* int() of a token of digits.
IntOf(tok) ==
    CASE tok = "7" -> 7
      [] tok = "1000" -> 1000
      [] tok = "12345" -> 12345

\* The first exception extract_header raises on the page, or "none".
HeaderFailure(toks) ==
    LET period  == PeriodMatches(toks)
        stmt    == StatementMatches(toks)
        opening == LabelMatches(toks, "Nachalno saldo:")
    IN  IF period # {} /\ (\/ ~_parse_date(toks[First(period) + 2]).ok
                           \/ ~_parse_date(toks[First(period) + 4]).ok) THEN "ValueError"
        ELSE IF stmt # {} /\ ~_parse_date(toks[First(stmt) + 3]).ok THEN "ValueError"
        ELSE IF opening # {} /\ ~ParseBalance(toks[First(opening) + 1]).ok THEN "InvalidOperation"
        ELSE "none"

\* Lines 237-310: extract_header on the pages loaded, on the day t.
extract_header(pages, t) ==
    LET first_page == IF pages # <<>> THEN pages[1] ELSE <<>>
        toks    == Join(first_page)
        holder  == HolderMatches(first_page, toks)
        address == AddressMatches(toks)
        iban    == IbanMatches(toks)
        curr    == CurrencyMatches(toks)
        period  == PeriodMatches(toks)
        stmt    == StatementMatches(toks)
        opening == LabelMatches(toks, "Nachalno saldo:")
    IN  IF HeaderFailure(toks) # "none" THEN [raised |-> HeaderFailure(toks)]
        ELSE [raised |-> "none",
              holder_code |-> IF holder # {} THEN toks[First(holder) + 1] ELSE "",
              holder_name |-> IF holder # {}
                              THEN SubSeq(toks, First(holder) + 2,
                                          First(HolderEnds(first_page, toks, First(holder))) - 1)
                              ELSE <<>>,
              address |-> IF address # {}
                          THEN SubSeq(toks, First(address) + 1,
                                      First(AddressEnds(toks, First(address))) - 1)
                          ELSE <<>>,
              iban |-> IF iban # {} THEN toks[First(iban) + 1] ELSE "",
              currency |-> IF curr # {} THEN CurrencyOf(toks[First(curr) + 1]) ELSE "EUR",
              from_date |-> IF period # {} THEN DateValue(_parse_date(toks[First(period) + 2]))
                            ELSE TodayValue(t),
              to_date |-> IF period # {} THEN DateValue(_parse_date(toks[First(period) + 4]))
                          ELSE TodayValue(t),
              statement_number |-> IF stmt # {} THEN IntOf(toks[First(stmt) + 1]) ELSE 0,
              statement_date |-> IF stmt # {} THEN DateValue(_parse_date(toks[First(stmt) + 3]))
                                 ELSE TodayValue(t),
              opening_balance |-> IF opening # {}
                                  THEN ParseBalance(toks[First(opening) + 1]).value ELSE Zero]

\* The lines a first page is made of.
HeaderLineSet == {
    <<"Titulyar na smetkata", "12345", "ACME", "OOD", "1000">>,
    <<"Adres", "SOFIA", "1000">>,
    <<"IBAN:", "BG41UBBS80021012345678">>,
    <<"IBAN:", "XX00">>,
    <<"Valuta", "USD">>,
    <<"Period na izvlechenieto:", "OT", "01 YAN 2026", "DO", "31 YAN 2026">>,
    <<"Period na izvlechenieto:", "OT", "01 YAN 2026", "DO", "31 APR 2026">>,
    <<"Poreden nomer / Data:", "7", "/", "05 XYZ 2026">>,
    <<"Poreden nomer / Data:", "7", "/", "29 FEV 2025">>,
    <<"Nachalno saldo:", "1,150.00 EUR / 2,249.21 BGN">>,
    <<"Nachalno saldo:", "1.2.3 EUR / 4.00 BGN">>,
    <<"Nachalno saldo:", "-50.00 EUR / -97.79 BGN">>,
    <<>> }

\* most lines of a first page handed to extract_header
MaxHeaderLines == 3

\* The days a parse may run on.
Days == { <<2026, 11, 2>>, <<2026, 11, 3>> }

(***************************************************************************)
(* Inputs of the extraction specification                                  *)
(***************************************************************************)
\* The lines a page is made of.
LineSet == {
    <<"05/01/26 06/01", "REF1", "PREVOD">>,
    <<"07/01/26 08/01", "REF2", "TAKSA", "-50.00 EUR / -97.79 BGN">>,
    <<"ACME">>,
    <<"INV7", "200.00 EUR / 391.17 BGN">>,
    <<"7.00 EUR / 13.69 BGN">>,
    <<"Mezhdinno saldo", "1,150.00 EUR / 2,249.21 BGN">>,
    <<"Stranitsa", "1">>,
    <<"Schet. Data">>,
    <<"x", "1.2.3 EUR / 4.00 BGN">>,
    <<"-3.00 EUR / 5.87 BGN">>,
    <<"3.00 EUR / -5.87 BGN">>,
    <<"UBB", "OBB Izvlechenie">>,
    <<>> }

\* The sum of the first k entries of a sequence of numbers.
RECURSIVE SumTo(_, _)
SumTo(sizes, k) == IF k = 0 THEN 0 ELSE sizes[k] + SumTo(sizes, k - 1)

\* The ways to give lines to pages: at most MaxPages pages, each of at least
\* one line (split("\n") never returns an empty list), MaxDocLines in all.
PageSizes ==
    { sizes \in UNION { [1..np -> 1..MaxDocLines] : np \in 0..MaxPages } :
        SumTo(sizes, Len(sizes)) <= MaxDocLines }

\* The document whose pages, of the sizes given, hold the lines of flat in order.
Paginate(flat, sizes) ==
    [k \in 1..Len(sizes) |-> SubSeq(flat, SumTo(sizes, k - 1) + 1, SumTo(sizes, k))]

InitExtract ==
    /\ \E sizes \in PageSizes :
          \E flat \in [1..SumTo(sizes, Len(sizes)) -> LineSet] :
              pages_text = Paginate(flat, sizes)
    /\ pc = "scan"
    /\ cur_page = 1
    /\ cur_line = 1
    /\ start_line = <<>>
    /\ start_at = <<0, 0>>
    /\ description_lines = <<>>
    /\ amount_match = NoMatch
    /\ raised = "none"
    /\ origin = <<>>
    /\ transactions = <<>>
    /\ statement = [opening_balance |-> Balance(0, 0), closing_balance |-> Balance(0, 0),
                    turnover |-> Turnover(Balance(0, 0), Balance(0, 0))]
    /\ result = NoResult
    /\ OthersIdle

NextExtract ==
    \/ ScanLine
    \/ StartWithoutAmount
    \/ StartWithAmount
    \/ CollectStop
    \/ CollectAmount
    \/ CollectText
    \/ CollectEnd
    \/ TrailSkip
    \/ TrailText
    \/ TrailStop
    \/ ParseTransaction
    \/ ParseRaises
    \/ NextPage
    \/ Return

SpecExtract == InitExtract /\ [][NextExtract]_vars

\* The same, the call running on as long as it has a step to take.
SpecExtractFair == SpecExtract /\ WF_vars(NextExtract)

(***************************************************************************)
(* The header specification: extract_header on a first page                *)
(***************************************************************************)
InitHeader ==
    /\ \/ pages_text = <<>>
       \/ \E n \in 1..MaxHeaderLines : \E page \in [1..n -> HeaderLineSet] :
              pages_text = <<page>>
    /\ today \in Days
    /\ header = Pending
    /\ footer = Pending
    /\ ScannerIdle /\ ValidatorIdle
    /\ ClassifierIdle /\ CounterpartyIdle /\ InstancesIdle /\ ImporterIdle

\* A call of extract_header().
ExtractHeader ==
    /\ header = Pending
    /\ header' = extract_header(pages_text, today)
    /\ UNCHANGED <<today, footer, classifier_vars, counterparty_vars, extractors, importer_vars,
                   statement, transactions, result, extractor_vars>>

NextHeader == ExtractHeader

SpecHeader == InitHeader /\ [][NextHeader]_vars

(***************************************************************************)
(* The footer specification: extract_footer on the pages of a document     *)
(***************************************************************************)
InitFooter ==
    /\ \E sizes \in PageSizes :
          \E flat \in [1..SumTo(sizes, Len(sizes)) -> FooterLineSet] :
              pages_text = Paginate(flat, sizes)
    /\ footer = Pending
    /\ header = Pending
    /\ today = <<2026, 1, 1>>
    /\ ScannerIdle /\ ValidatorIdle
    /\ ClassifierIdle /\ CounterpartyIdle /\ InstancesIdle /\ ImporterIdle

\* A call of extract_footer().
ExtractFooter ==
    /\ footer = Pending
    /\ footer' = extract_footer(pages_text)
    /\ UNCHANGED <<today, header, classifier_vars, counterparty_vars, extractors, importer_vars,
                   statement, transactions, result, extractor_vars>>

NextFooter == ExtractFooter

SpecFooter == InitFooter /\ [][NextFooter]_vars

(***************************************************************************)
(* The parse specification: extractor instances, each on its own document, *)
(* their steps interleaved.  A step is a page loaded, the header read, the *)
(* footer read, or a page of transactions read.                            *)
(***************************************************************************)
\* The extractor instances of a run.
Instances == {1, 2}

\* The documents handed to the instances: the text of each page of the PDF.
DocPlain ==
    << << <<"Period na izvlechenieto:", "OT", "01 YAN 2026", "DO", "31 YAN 2026">>,
          <<"07/01/26 08/01", "REF2", "TAKSA", "-50.00 EUR / -97.79 BGN">>,
          <<"Krayno saldo:", "1,150.00 EUR / 2,249.21 BGN">> >> >>

DocUndated ==
    << << <<"Nachalno saldo:", "1,150.00 EUR / 2,249.21 BGN">>,
          <<"05/01/26 06/01", "REF1", "PREVOD">>,
          <<"ACME">>,
          <<"INV7", "200.00 EUR / 391.17 BGN">> >>,
       << <<"Krayno saldo:", "7.00 EUR / 13.69 BGN">>,
          <<"Belezhka">> >> >>

DocBadAmount ==
    << << <<"05/01/26 06/01", "REF1", "PREVOD">>,
          <<"x", "1.2.3 EUR / 4.00 BGN">> >> >>

DocBadValueDate ==
    << << <<"Krayno saldo:", "7.00 EUR / 13.69 BGN">> >>,
       << <<"28/02/25 29/02", "REF1", "PREVOD", "7.00 EUR / 13.69 BGN">> >> >>

DocBadPeriod ==
    << << <<"Period na izvlechenieto:", "OT", "01 YAN 2026", "DO", "31 APR 2026">> >> >>

DocBadClosing ==
    << << <<"Valuta", "USD">> >>,
       << <<"Krayno saldo:", "1.2.3 EUR / 4.00 BGN">> >> >>

DocEmpty == <<>>

\* A posting date in January with a value date in December.
DocYearEnd ==
    << << <<"Period na izvlechenieto:", "OT", "01 YAN 2026", "DO", "31 YAN 2026">>,
          <<"02/01/26 30/12", "REF2", "TAKSA", "-50.00 EUR / -97.79 BGN">> >> >>

\* A statement of January 1999.
DocCentury ==
    << << <<"Period na izvlechenieto:", "OT", "01 YAN 1999", "DO", "31 YAN 1999">>,
          <<"05/01/99 06/01", "REF1", "PREVOD", "7.00 EUR / 13.69 BGN">> >> >>

Documents == {DocPlain, DocUndated, DocBadAmount, DocBadValueDate, DocBadPeriod,
              DocBadClosing, DocEmpty, DocYearEnd, DocCentury}

\* All instances use the list of the first: pages_text kept on the class.
pages_text_of_shared(x) == 1

\* Line 87: __init__ gives every instance a list of its own; self.pages_text
\* of instance x is the list of instance x.
pages_text_of(x) == x

\* self.pages_text as instance x reads it.
PagesOf(x) == extractors[pages_text_of(x)].pages_text

\* The BankStatement parse() builds (lines 532-548).
StatementOf(h, f, txs) == [header |-> h, footer |-> f, transactions |-> txs]

\* parse() of a document by an instance that runs alone, on the day t: the
\* statement, or the exception.
ParseAlone(doc, t) ==
    LET h   == extract_header(doc, t)
        f   == extract_footer(doc)
        txs == extract_transactions_of_year(doc, h.from_date.year)
    IN  IF h.raised # "none" THEN [raised |-> h.raised]
        ELSE IF f.raised # "none" THEN [raised |-> f.raised]
        ELSE IF txs.raised # "none" THEN [raised |-> txs.raised]
        ELSE [raised |-> "none", statement |-> StatementOf(h, f, txs.transactions)]

InitParse ==
    /\ extractors \in [Instances -> { [pdf |-> doc, pc |-> "load", pages_text |-> <<>>,
                                       loaded |-> 0, today |-> <<0, 0, 0>>,
                                       header |-> Pending, footer |-> Pending,
                                       page |-> 1, transactions |-> <<>>,
                                       raised |-> "none", statement |-> Pending,
                                       returned |-> <<>>]
                                      : doc \in Documents }]
    /\ pages_text = <<>>
    /\ ScannerIdle /\ ValidatorIdle
    /\ ClassifierIdle /\ CounterpartyIdle /\ SummaryIdle /\ ImporterIdle

\* Lines 229-231: the text of the next page of the PDF is appended.
LoadPage(x) ==
    /\ extractors[x].pc = "load"
    /\ extractors[x].loaded < Len(extractors[x].pdf)
    /\ extractors' = [extractors EXCEPT
                        ![pages_text_of(x)].pages_text =
                            Append(@, extractors[x].pdf[extractors[x].loaded + 1]),
                        ![x].loaded = @ + 1]

\* Line 233 and 525: the PDF is read; parse() goes on to the header.
EndLoad(x) ==
    /\ extractors[x].pc = "load"
    /\ extractors[x].loaded = Len(extractors[x].pdf)
    /\ extractors' = [extractors EXCEPT ![x].pc = "header"]

\* Line 525: extract_header(), on the day t.
ParseHeader(x) ==
    /\ extractors[x].pc = "header"
    /\ \E t \in Days :
          LET h == extract_header(PagesOf(x), t)
          IN  extractors' = [extractors EXCEPT
                                ![x].today = t,
                                ![x].header = h,
                                ![x].raised = h.raised,
                                ![x].pc = IF h.raised = "none" THEN "footer" ELSE "raised"]

\* Line 526: extract_footer().
ParseFooter(x) ==
    /\ extractors[x].pc = "footer"
    /\ LET f == extract_footer(PagesOf(x))
       IN  extractors' = [extractors EXCEPT
                             ![x].footer = f,
                             ![x].raised = f.raised,
                             ![x].pc = IF f.raised = "none" THEN "transactions" ELSE "raised"]

\* Lines 395-517: one turn of the for loop over self.pages_text.
ParsePage(x) ==
    /\ extractors[x].pc = "transactions"
    /\ extractors[x].page <= Len(PagesOf(x))
    /\ LET r == ScanFrom(PagesOf(x)[extractors[x].page], 1, extractors[x].transactions)
       IN  extractors' = [extractors EXCEPT
                             ![x].transactions = r.transactions,
                             ![x].page = @ + 1,
                             ![x].raised = r.raised,
                             ![x].pc = IF r.raised = "none" THEN "transactions" ELSE "raised"]

\* Lines 519 and 531-548: the loop is over, the BankStatement is built.
Finish(x) ==
    /\ extractors[x].pc = "transactions"
    /\ extractors[x].page > Len(PagesOf(x))
    /\ extractors' = [extractors EXCEPT
                         ![x].statement = StatementOf(extractors[x].header, extractors[x].footer,
                                                      extractors[x].transactions),
                         ![x].returned =
                             Append(@, [statement  |-> StatementOf(extractors[x].header,
                                                                   extractors[x].footer,
                                                                   extractors[x].transactions),
                                        pages_text |-> PagesOf(x)]),
                         ![x].pc = "done"]

\* The single-instance variables are not in use.
OnlyInstances ==
    UNCHANGED <<statement, transactions, result, extractor_vars, classifier_vars,
                counterparty_vars, summary_vars, importer_vars>>

NextParse ==
    \/ \E x \in Instances : LoadPage(x) /\ OnlyInstances
    \/ \E x \in Instances : EndLoad(x) /\ OnlyInstances
    \/ \E x \in Instances : ParseHeader(x) /\ OnlyInstances
    \/ \E x \in Instances : ParseFooter(x) /\ OnlyInstances
    \/ \E x \in Instances : ParsePage(x) /\ OnlyInstances
    \/ \E x \in Instances : Finish(x) /\ OnlyInstances

SpecParse == InitParse /\ [][NextParse]_vars

(***************************************************************************)
(* The same, with parse() called again on an instance that has returned.   *)
(***************************************************************************)
\* The number of parse() calls on one instance.
MaxParses == 2

\* Lines 521-523 of a further call: _load_pdf() reads the PDF again and
\* appends to self.pages_text, which still holds the pages of the calls
\* before; line 393 starts a new transactions list.
ParseAgain(x) ==
    /\ extractors[x].pc = "done"
    /\ Len(extractors[x].returned) < MaxParses
    /\ extractors' = [extractors EXCEPT ![x].pc = "load", ![x].loaded = 0,
                                        ![x].page = 1, ![x].transactions = <<>>]

NextReparse ==
    \/ NextParse
    \/ \E x \in Instances : ParseAgain(x) /\ OnlyInstances

SpecReparse == InitParse /\ [][NextReparse]_vars

(***************************************************************************)
(* services/bigquery : import_statement, its calls made one at a time.     *)
(* A step is the duplicate check, or one insert_rows_json request.         *)
(***************************************************************************)
\* BATCH_SIZE is 500 in the program; the model runs with small batches.
BATCH_SIZE == 2

\* The number of import_statement calls of a run.
MaxCalls == 3

\* A Decimal: the digits it was built from and its value in cents.  Two
\* Decimals are equal when their values are; str() gives the digits back.
Decimal(text, cents) == [text |-> text, cents |-> cents]

\* str(d) of a Decimal.
DecimalStr(d) == d.text

\* The statements handed to import_statement: what generate_statement_id
\* reads of StatementInfo, the number of transactions and the file name.
ImportStatements == {
    [iban |-> "BG41UBBS80021012345678", statement_date |-> <<2026, 1, 31>>,
     statement_number |-> 7, opening_balance_eur |-> Decimal("0.00", 0),
     transaction_count |-> 3, source_filename |-> "a.pdf"],
    [iban |-> "BG41UBBS80021012345678", statement_date |-> <<2026, 1, 31>>,
     statement_number |-> 7, opening_balance_eur |-> Decimal("0", 0),
     transaction_count |-> 1, source_filename |-> "b.pdf"],
    [iban |-> "BG41UBBS80021012345678", statement_date |-> <<2026, 1, 31>>,
     statement_number |-> 7, opening_balance_eur |-> Decimal("0.00", 0),
     transaction_count |-> 0, source_filename |-> "c.pdf"],
    [iban |-> "BG41UBBS80021012345678", statement_date |-> <<2026, 2, 28>>,
     statement_number |-> 8, opening_balance_eur |-> Decimal("1150.00", 115000),
     transaction_count |-> 2, source_filename |-> "d.pdf"] }

\* generate_statement_id: the four components that are joined with "|" and
\* hashed; the truncated SHA256 is taken to be free of collisions.
generate_statement_id(st) ==
    <<st.iban, st.statement_date, st.statement_number, DecimalStr(st.opening_balance_eur)>>

\* A slip: every statement is taken for new.
check_duplicate_never(statement_id) == FALSE

\* check_duplicate: the query finds a row of statements with the identifier.
check_duplicate(statement_id) ==
    \E k \in 1..Len(bq.statements) : bq.statements[k] = statement_id

\* What an insert_rows_json request can do: insert its rows and return no
\* error, return errors and insert none of its rows, or raise.
InsertOutcomes == {"inserted", "errors", "raises"}

\* _log_import: a row of import_log.
LogRow(status, statement_id) == [status |-> status, statement_id |-> statement_id]

\* transaction_rows[i : i + BATCH_SIZE], by identifier and index (from 0).
Batch(statement_id, count, i) ==
    LET last == IF i + BATCH_SIZE < count THEN i + BATCH_SIZE ELSE count
    IN  [k \in 1..(last - i) |-> [statement_id |-> statement_id, index |-> i + k - 1]]

InitImport ==
    /\ bq = [statements |-> <<>>, transactions |-> <<>>, import_log |-> <<>>]
    /\ imp = [pc |-> "idle", calls |-> 0, statement |-> Pending, statement_id |-> <<>>,
              errors |-> FALSE, i |-> 0, outcome |-> "none",
              before |-> bq, succeeded |-> {}, earlier |-> {}]
    /\ ValidatorIdle /\ ExtractorIdle
    /\ ClassifierIdle /\ CounterpartyIdle /\ SummaryIdle /\ InstancesIdle

\* Lines 70-90: the call begins; a statement whose identifier is in the
\* statements table is logged as a duplicate and DuplicateStatementError raised.
BeginImport ==
    /\ imp.pc \in {"idle", "ended"}
    /\ imp.calls < MaxCalls
    /\ \E st \in ImportStatements :
          LET statement_id == generate_statement_id(st)
              call == [imp EXCEPT !.calls = @ + 1, !.statement = st,
                                  !.statement_id = statement_id, !.errors = FALSE,
                                  !.i = 0, !.before = bq, !.earlier = imp.succeeded]
          IN  IF check_duplicate(statement_id)
              THEN /\ bq' = [bq EXCEPT !.import_log = Append(@, LogRow("duplicate", statement_id))]
                   /\ imp' = [call EXCEPT !.pc = "ended", !.outcome = "DuplicateStatementError"]
              ELSE /\ bq' = bq
                   /\ imp' = [call EXCEPT !.pc = "statement", !.outcome = "none"]

\* Lines 157-169: an exception inside the try block is logged as failed and
\* ImportError raised.
Failed(call) ==
    /\ bq' = [bq EXCEPT !.import_log = Append(@, LogRow("failed", <<>>))]
    /\ imp' = [call EXCEPT !.pc = "ended", !.outcome = "ImportError"]

\* Lines 92-122: the rows are built and the statement row is sent.
InsertStatementRow ==
    /\ imp.pc = "statement"
    /\ \E outcome \in InsertOutcomes :
          IF outcome = "raises" THEN Failed(imp)
          ELSE /\ bq' = IF outcome = "inserted"
                        THEN [bq EXCEPT !.statements = Append(@, imp.statement_id)]
                        ELSE bq
               /\ imp' = [imp EXCEPT !.pc = "transactions",
                                     !.errors = (outcome = "errors")]

\* Lines 124-130: the next batch of transaction rows is sent.
InsertTransactionBatch ==
    /\ imp.pc = "transactions"
    /\ imp.i < imp.statement.transaction_count
    /\ \E outcome \in InsertOutcomes :
          IF outcome = "raises" THEN Failed(imp)
          ELSE /\ bq' = IF outcome = "inserted"
                        THEN [bq EXCEPT !.transactions =
                                  @ \o Batch(imp.statement_id,
                                             imp.statement.transaction_count, imp.i)]
                        ELSE bq
               /\ imp' = [imp EXCEPT !.i = @ + BATCH_SIZE,
                                     !.errors = @ \/ (outcome = "errors")]

\* Lines 132-156: with errors collected ImportError is raised; without, the
\* import is logged as a success and the identifier returned.
EndImport ==
    /\ imp.pc = "transactions"
    /\ imp.i >= imp.statement.transaction_count
    /\ IF imp.errors
       THEN /\ bq' = bq
            /\ imp' = [imp EXCEPT !.pc = "ended", !.outcome = "ImportError"]
       ELSE /\ bq' = [bq EXCEPT !.import_log = Append(@, LogRow("success", imp.statement_id))]
            /\ imp' = [imp EXCEPT !.pc = "ended", !.outcome = "returned",
                                  !.succeeded = @ \cup {imp.statement}]

\* The extractor is not in use.
OnlyImporter ==
    UNCHANGED <<statement, transactions, result, extractor_vars, classifier_vars,
                counterparty_vars, summary_vars, extractors>>

NextImport ==
    \/ BeginImport /\ OnlyImporter
    \/ InsertStatementRow /\ OnlyImporter
    \/ InsertTransactionBatch /\ OnlyImporter
    \/ EndImport /\ OnlyImporter

SpecImport == InitImport /\ [][NextImport]_vars

(***************************************************************************)
(* Properties of validate_balance                                          *)
(***************************************************************************)
\* The sum of f[i] over the indices i in S.
RECURSIVE SumOver(_, _)
SumOver(S, f) ==
    IF S = {} THEN 0
    ELSE LET i == CHOOSE j \in S : TRUE IN f[i] + SumOver(S \ {i}, f)

Validated == result.none = FALSE

DebitIdx  == {i \in 1..Len(transactions) : transactions[i].is_debit}
CreditIdx == {i \in 1..Len(transactions) : ~transactions[i].is_debit}

EurOf == [i \in 1..Len(transactions) |-> transactions[i].amount.eur]
BgnOf == [i \in 1..Len(transactions) |-> transactions[i].amount.bgn]

\* |opening + sum(credit) - sum(debit) - closing| per currency, from the inputs alone.
EurGap == Abs(statement.opening_balance.eur + SumOver(CreditIdx, EurOf)
              - SumOver(DebitIdx, EurOf) - statement.closing_balance.eur)
BgnGap == Abs(statement.opening_balance.bgn + SumOver(CreditIdx, BgnOf)
              - SumOver(DebitIdx, BgnOf) - statement.closing_balance.bgn)

ErrorKinds == {result.errors[k].kind : k \in 1..Len(result.errors)}

\* C1: validate_balance returns is_valid = TRUE exactly when the EUR gap is at
\* most 0.02 and the BGN gap at most 0.10; a gap of exactly 0.02 EUR (0.10 BGN)
\* is accepted and a gap of 0.03 EUR gives is_valid = FALSE with errors non-empty.
C1_ValidIffWithinTolerance ==
    Validated =>
        /\ result.is_valid <=> (EurGap <= 2 /\ BgnGap <= 10)
        /\ (EurGap = 2 /\ BgnGap = 10) => result.is_valid
        /\ EurGap = 3 => (~result.is_valid /\ Len(result.errors) > 0)
        /\ ~result.is_valid => Len(result.errors) > 0

\* C1 witness: a validated statement whose gaps sit exactly on both tolerances.
C1_Witness == Validated /\ EurGap = 2 /\ BgnGap = 10 /\ result.is_valid

\* The inputs of the end-to-end example (either order of the two transactions).
IsExample ==
    /\ statement.opening_balance = Balance(100000, 195583)
    /\ Len(transactions) = 2
    /\ {transactions[1], transactions[2]} = {Tx(20000, 39117, FALSE), Tx(5000, 9779, TRUE)}

\* C2 as stated: on the end-to-end example calculated_closing = (1150.00, 1249.21)
\* and a statement reporting closing = (1150.00, 1249.21) is valid.
C2_Original ==
    (Validated /\ IsExample) =>
        /\ result.calculated_closing_eur = 115000
        /\ result.calculated_closing_bgn = 124921
        /\ statement.closing_balance = Balance(115000, 124921) => result.is_valid

\* C2 amended: on the end-to-end example calculated_closing = (1150.00, 2249.21);
\* a statement reporting closing = (1150.00, 2249.21) is valid and one reporting
\* (1150.00, 1249.21) is not.
C2_ExampleClosing ==
    (Validated /\ IsExample) =>
        /\ result.calculated_closing_eur = 115000
        /\ result.calculated_closing_bgn = 224921
        /\ statement.closing_balance = Balance(115000, 224921) => result.is_valid
        /\ statement.closing_balance = Balance(115000, 124921) => ~result.is_valid

\* C2 witness: the example validated against closing = (1150.00, 2249.21).
C2_Witness ==
    /\ Validated /\ IsExample
    /\ statement.closing_balance = Balance(115000, 224921)
    /\ result.is_valid

\* C3: total_debit / total_credit are the sums of amount over the transactions
\* with is_debit = TRUE / FALSE, each transaction is counted in exactly one of
\* them, and calculated_closing = opening + total_credit - total_debit, per
\* currency and for every transaction list, the empty one included.
C3_TotalsAndClosing ==
    Validated =>
        /\ result.total_debit_eur  = SumOver(DebitIdx, EurOf)
        /\ result.total_credit_eur = SumOver(CreditIdx, EurOf)
        /\ result.total_debit_bgn  = SumOver(DebitIdx, BgnOf)
        /\ result.total_credit_bgn = SumOver(CreditIdx, BgnOf)
        /\ result.total_debit_eur + result.total_credit_eur
              = SumOver(1..Len(transactions), EurOf)
        /\ result.total_debit_bgn + result.total_credit_bgn
              = SumOver(1..Len(transactions), BgnOf)
        /\ result.calculated_closing_eur
              = statement.opening_balance.eur + result.total_credit_eur - result.total_debit_eur
        /\ result.calculated_closing_bgn
              = statement.opening_balance.bgn + result.total_credit_bgn - result.total_debit_bgn
        /\ transactions = <<>> =>
              /\ result.total_debit_eur = 0 /\ result.total_credit_eur = 0
              /\ result.calculated_closing_eur = statement.opening_balance.eur

\* C3 witness: a validated list holding debits and credits with non-zero sums.
C3_Witness ==
    /\ Validated
    /\ Cardinality(DebitIdx) >= 1 /\ Cardinality(CreditIdx) >= 2
    /\ result.total_debit_eur > 0 /\ result.total_credit_eur > 0

\* The verdict and the errors do not depend on the reported turnover.
TurnoverBlind ==
    \A t \in TurnoverSet :
        LET other == validate_balance([statement EXCEPT !.turnover = t], transactions)
        IN  other.is_valid = result.is_valid /\ other.errors = result.errors

\* C4 as stated: is_valid iff errors is empty, the reported turnover changes
\* neither, and a reconciling statement whose summed EUR debits or credits
\* differ from the reported turnover is valid with warnings non-empty.
C4_Original ==
    Validated =>
        /\ result.is_valid <=> (Len(result.errors) = 0)
        /\ TurnoverBlind
        /\ (/\ EurGap <= 2 /\ BgnGap <= 10
            /\ \/ SumOver(DebitIdx, EurOf) # statement.turnover.debit.eur
               \/ SumOver(CreditIdx, EurOf) # statement.turnover.credit.eur)
           => (result.is_valid /\ Len(result.warnings) > 0)

\* C4 amended: is_valid iff errors is empty, the reported turnover changes
\* neither, and a reconciling statement whose summed EUR debits or credits
\* differ from the reported EUR turnover by more than 0.02 is valid with
\* warnings non-empty.
C4_TurnoverIsWarningOnly ==
    Validated =>
        /\ result.is_valid <=> (Len(result.errors) = 0)
        /\ TurnoverBlind
        /\ (/\ EurGap <= 2 /\ BgnGap <= 10
            /\ \/ Abs(SumOver(DebitIdx, EurOf) - statement.turnover.debit.eur) > 2
               \/ Abs(SumOver(CreditIdx, EurOf) - statement.turnover.credit.eur) > 2)
           => (result.is_valid /\ Len(result.warnings) > 0)

\* C4 witness: a reconciling statement with both turnover totals off is valid
\* and carries two warnings.
C4_Witness ==
    /\ Validated /\ result.is_valid
    /\ EurGap <= 2 /\ BgnGap <= 10
    /\ Abs(SumOver(DebitIdx, EurOf) - statement.turnover.debit.eur) > 2
    /\ Len(result.warnings) = 2

\* C5: errors holds an EUR-mismatch entry exactly when the EUR tolerance is
\* breached and a BGN-mismatch entry exactly when the BGN tolerance is breached,
\* so it has 0, 1 or 2 entries.
C5_IndependentErrors ==
    Validated =>
        /\ ("EUR balance mismatch" \in ErrorKinds) <=> (EurGap > 2)
        /\ ("BGN balance mismatch" \in ErrorKinds) <=> (BgnGap > 10)
        /\ ErrorKinds \subseteq {"EUR balance mismatch", "BGN balance mismatch"}
        /\ Len(result.errors) = (IF EurGap > 2 THEN 1 ELSE 0) + (IF BgnGap > 10 THEN 1 ELSE 0)

\* C5 witness: both tolerances breached, two entries reported.
C5_Witness ==
    /\ Validated
    /\ EurGap > 2 /\ BgnGap > 10
    /\ Len(result.errors) = 2

(***************************************************************************)
(* Properties of extract_transactions                                      *)
(*                                                                         *)
(* The blocks of a page are told from the page alone: a block runs from a  *)
(* transaction-start line to the line before the next one, or to the end   *)
(* of the page.                                                            *)
(***************************************************************************)
Ended == pc \in {"done", "raised"}

\* Index of the first start line of page after line s, or Len(page) + 1.
NextStart(page, s) ==
    IF \E e \in (s + 1)..Len(page) : IsTransactionStart(page[e])
    THEN CHOOSE e \in (s + 1)..Len(page) :
            /\ IsTransactionStart(page[e])
            /\ \A k \in (s + 1)..(e - 1) : ~IsTransactionStart(page[k])
    ELSE Len(page) + 1

\* Index of the first amount-bearing line of the block of s after s, or 0.
ClosingLine(page, s) ==
    LET e == NextStart(page, s)
    IN  IF \E c \in (s + 1)..(e - 1) : HasAmount(page[c])
        THEN CHOOSE c \in (s + 1)..(e - 1) :
                /\ HasAmount(page[c])
                /\ \A k \in (s + 1)..(c - 1) : ~HasAmount(page[k])
        ELSE 0

\* The start line s of page leads to a transaction: an amount is found in its block.
Closes(page, s) == HasAmount(page[s]) \/ ClosingLine(page, s) # 0

\* Interim-balance line, page marker or letterhead.
IsBoilerplate(line) ==
    \/ (line # <<>> /\ Head(line) \in {"Mezhdinno saldo", "Stranitsa"})
    \/ \E k \in DOMAIN line : line[k] = "OBB Izvlechenie"

\* The header line of the transaction table.
IsColumnHeader(line) == line # <<>> /\ Head(line) = "Schet. Data"

NotBoilerplate(line) == ~IsBoilerplate(line)

NeitherBoilerplateNorHeader(line) == ~IsBoilerplate(line) /\ ~IsColumnHeader(line)

\* The text of a line after its date fields.
AfterDates(line) == SubSeq(line, 2, Len(line))

\* The text of a line before its trailing amount.
TextBeforeAmount(line) == SubSeq(line, 1, Len(line) - 1)

\* The text of a start line between its date fields and its trailing amount.
BetweenDatesAndAmount(line) == SubSeq(line, 2, Len(line) - 1)

OneIfNonEmpty(text) == IF text # <<>> THEN <<text>> ELSE <<>>

\* The lines, one after the other, as one text.
RECURSIVE Flatten(_)
Flatten(ls) == IF Len(ls) = 0 THEN <<>> ELSE Flatten(SubSeq(ls, 1, Len(ls) - 1)) \o ls[Len(ls)]

\* Positions of the output whose transaction started at line s of page pp.
EmittedFor(pp, s) == {k \in 1..Len(origin) : origin[k] = <<pp, s>>}

\* C6 as stated: for a start line without amount, followed by n >= 0 lines that
\* are neither start lines, boilerplate nor amount-bearing, and then by a line
\* (not a start line) ending in the amount pattern, extract_transactions emits
\* exactly one Transaction, whose raw_description joins the start line's
\* remainder, the n lines in order, and the non-empty text before the amount.
C6_Original ==
    Ended =>
        \A pp \in 1..Len(pages_text) :
            LET page == pages_text[pp] IN
            \A s \in 1..Len(page), c \in 1..Len(page) :
                (/\ s < c
                 /\ IsTransactionStart(page[s]) /\ ~HasAmount(page[s])
                 /\ \A k \in (s + 1)..(c - 1) :
                        /\ ~IsTransactionStart(page[k])
                        /\ ~IsBoilerplate(page[k])
                        /\ ~HasAmount(page[k])
                 /\ HasAmount(page[c]) /\ ~IsTransactionStart(page[c]))
                =>
                (/\ Cardinality(EmittedFor(pp, s)) = 1
                 /\ \A k \in EmittedFor(pp, s) :
                        transactions[k].raw_description =
                            Flatten(<<AfterDates(page[s])>>
                                    \o SubSeq(page, s + 1, c - 1)
                                    \o OneIfNonEmpty(TextBeforeAmount(page[c]))))

\* The same, for the runs of extract_transactions that return.
C6_WhenReturned == (pc = "done") => C6_Original

\* The cents a number of an amount token stands for.
CentsOf(text) == _parse_decimal(text).value

\* C7: a start line that ends in the amount pattern closes on that line: the
\* scan never looks for its amount on later lines, the amount of its
\* transaction is that line's, and reference and description are the first
\* token and the rest of the text between the date fields and the amount,
\* whatever lines follow.
C7_ClosesOnStartLine ==
    /\ pc = "collecting" => ~HasAmount(start_line)
    /\ (pc \in {"trailing", "parse"} /\ HasAmount(start_line)) =>
            amount_match = start_line[Len(start_line)]
    /\ \A k \in 1..Len(transactions) :
          LET line == pages_text[origin[k][1]][origin[k][2]]
              text == BetweenDatesAndAmount(line)
              nums == AmountGroups(line[Len(line)])
          IN  HasAmount(line) =>
                /\ transactions[k].amount = Balance(Abs(CentsOf(nums.eur)), Abs(CentsOf(nums.bgn)))
                /\ transactions[k].is_debit = (CentsOf(nums.eur) < 0)
                /\ transactions[k].reference = (IF text # <<>> THEN text[1] ELSE "")
                /\ transactions[k].description = (IF text # <<>> THEN Tail(text) ELSE <<>>)

\* C7 witness: a transaction closed on its start line and followed by a line
\* that itself carries an amount, which joined its description only.
C7_Witness ==
    /\ pc = "done"
    /\ \E k \in 1..Len(transactions) :
          LET page == pages_text[origin[k][1]]
              s    == origin[k][2]
          IN  /\ HasAmount(page[s])
              /\ s < Len(page) /\ HasAmount(page[s + 1]) /\ ~IsBoilerplate(page[s + 1])
              /\ ~IsTransactionStart(page[s + 1])
              /\ Len(transactions[k].raw_description) > Len(BetweenDatesAndAmount(page[s]))

\* The description lines of the transaction that starts at line s of page, as
\* the claims give them, with Keep telling which trailing lines are kept.
BlockLines(page, s, Keep(_)) ==
    IF HasAmount(page[s])
    THEN <<BetweenDatesAndAmount(page[s])>>
         \o SelectSeq(SubSeq(page, s + 1, NextStart(page, s) - 1), Keep)
    ELSE LET c == ClosingLine(page, s)
         IN  <<AfterDates(page[s])>>
             \o SelectSeq(SubSeq(page, s + 1, c - 1), NotBoilerplate)
             \o OneIfNonEmpty(TextBeforeAmount(page[c]))

\* The amount token of the transaction that starts at line s of page.
BlockAmount(page, s) ==
    IF HasAmount(page[s]) THEN page[s][Len(page[s])]
    ELSE page[ClosingLine(page, s)][Len(page[ClosingLine(page, s)])]

\* Every emitted transaction has the description lines of its own block.
DescriptionsAre(Keep(_)) ==
    /\ \A k \in 1..Len(transactions) :
          LET page  == pages_text[origin[k][1]]
              lines == BlockLines(page, origin[k][2], Keep)
          IN  /\ transactions[k].raw_description = Flatten(lines)
              /\ transactions[k].counterparty = _extract_counterparty(lines, transactions[k].type)
    /\ (pc = "parse" /\ HasAmount(start_line)) =>
          description_lines = BlockLines(pages_text[start_at[1]], start_at[2], Keep)

\* C8 as stated: after a transaction closed on its start line, every following
\* non-boilerplate line up to the next start line (of its page) is appended, in
\* order, to its description lines, and to no other transaction's.
C8_Original == DescriptionsAre(NotBoilerplate)

\* C8 amended: after a transaction closed on its start line, every following
\* line that is neither boilerplate nor the column-header line, up to the next
\* start line or the end of the page, is appended, in order, to its description
\* lines, and to no other transaction's.
C8_TrailingLines == DescriptionsAre(NeitherBoilerplateNorHeader)

\* C8 witness: a transaction closed on its start line, followed by a column
\* header and by a line of text; only the text joined its description.
C8_Witness ==
    /\ pc = "done"
    /\ \E k \in 1..Len(transactions) :
          LET page == pages_text[origin[k][1]]
              s    == origin[k][2]
          IN  /\ HasAmount(page[s])
              /\ Len(page) = s + 2
              /\ IsColumnHeader(page[s + 1])
              /\ page[s + 2] = <<"ACME">>
              /\ transactions[k].raw_description = BetweenDatesAndAmount(page[s]) \o <<"ACME">>

\* The transaction the block of line s of page gives, when its fields parse.
BlockTransaction(page, s) ==
    BuildTransaction(page[s], BlockLines(page, s, NeitherBoilerplateNorHeader),
                     BlockAmount(page, s))

\* The transactions of the blocks of page from line s on, in order.
RECURSIVE PageOutput(_, _)
PageOutput(page, s) ==
    IF s > Len(page) THEN <<>>
    ELSE (IF IsTransactionStart(page[s]) /\ Closes(page, s)
          THEN <<BlockTransaction(page, s)>> ELSE <<>>)
         \o PageOutput(page, s + 1)

\* The transactions of the blocks of a document, page after page.
RECURSIVE DocOutput(_)
DocOutput(doc) ==
    IF Len(doc) = 0 THEN <<>>
    ELSE DocOutput(SubSeq(doc, 1, Len(doc) - 1)) \o PageOutput(doc[Len(doc)], 1)

\* Line s of page starts a candidate that meets a new start line before any amount.
Discarded(page, s) ==
    /\ IsTransactionStart(page[s]) /\ ~Closes(page, s)
    /\ NextStart(page, s) <= Len(page)

\* The document without the block of line s of page pp.
WithoutBlock(doc, pp, s) ==
    [doc EXCEPT ![pp] = SubSeq(@, 1, s - 1) \o SubSeq(@, NextStart(@, s), Len(@))]

\* The step that meets a new start line while the amount is still looked for.
AtNewStartWithoutAmount == pc = "collecting" /\ InPage /\ IsTransactionStart(Line)

\* C9, the output: a discarded candidate is in no transaction of the output;
\* what extract_transactions returns is what the blocks with an amount give,
\* and also what the document gives without the discarded candidate's block.
C9_Output ==
    /\ \A k \in 1..Len(origin) : ~Discarded(pages_text[origin[k][1]], origin[k][2])
    /\ pc = "done" =>
          /\ transactions = DocOutput(pages_text)
          /\ \A pp \in 1..Len(pages_text) : \A s \in 1..Len(pages_text[pp]) :
                Discarded(pages_text[pp], s) =>
                    transactions = DocOutput(WithoutBlock(pages_text, pp, s))

\* C9, the step: discarding raises nothing, leaves the list as it is, and the
\* scan goes on at the new start line.
C9_Step ==
    AtNewStartWithoutAmount =>
        /\ transactions' = transactions
        /\ raised' = raised /\ raised = "none"
        /\ pc' = "scan" /\ cur_line' = cur_line /\ cur_page' = cur_page

\* C9: a candidate for which a new start line is reached before any amount is
\* discarded: no Transaction, no error, and the transactions before and after
\* it are what they are without it.
C9_DiscardIsSilent == [](C9_Output) /\ [][C9_Step]_vars

\* C9 witness: a candidate was discarded between two emitted transactions.
C9_Witness ==
    /\ pc = "done"
    /\ Len(pages_text) = 1 /\ Len(pages_text[1]) = 3
    /\ Discarded(pages_text[1], 2)
    /\ origin = << <<1, 1>>, <<1, 3>> >>

\* <<page, line>> a stands before b in the document.
Before(a, b) == a[1] < b[1] \/ (a[1] = b[1] /\ a[2] < b[2])

\* C10: the output is in document order: the start lines of the transactions
\* emitted so far stand in strictly increasing <<page, line>> order, so no start
\* line gives two transactions, and each transaction is the one of its block.
C10_DocumentOrder ==
    /\ Len(origin) = Len(transactions)
    /\ \A j \in 1..Len(origin), k \in 1..Len(origin) :
          j < k => Before(origin[j], origin[k])
    /\ \A pp \in 1..Len(pages_text) : \A s \in 1..Len(pages_text[pp]) :
          Cardinality(EmittedFor(pp, s)) <= 1
    /\ \A k \in 1..Len(origin) :
          /\ origin[k][1] \in 1..Len(pages_text)
          /\ origin[k][2] \in 1..Len(pages_text[origin[k][1]])
          /\ IsTransactionStart(pages_text[origin[k][1]][origin[k][2]])
          /\ transactions[k] = BlockTransaction(pages_text[origin[k][1]], origin[k][2])

\* C10 witness: two transactions from two pages, a multi-line one before a
\* one-line one, returned in page order.
C10_Witness ==
    /\ pc = "done"
    /\ Len(transactions) = 2
    /\ origin[1][1] = 1 /\ origin[2][1] = 2
    /\ transactions[1].reference = "REF1" /\ transactions[2].reference = "REF2"

(***************************************************************************)
(* Properties of the amounts of a transaction                              *)
(***************************************************************************)
\* The two numbers of the amount the transaction k was built from, in cents.
ParsedAmount(k) ==
    LET nums == AmountGroups(BlockAmount(pages_text[origin[k][1]], origin[k][2]))
    IN  [eur |-> CentsOf(nums.eur), bgn |-> CentsOf(nums.bgn)]

\* C11: every emitted transaction has amount.eur >= 0 and amount.bgn >= 0, each
\* the absolute value of the parsed number, and is_debit is true exactly when
\* the parsed EUR number is negative, whatever the sign of the BGN number.
C11_AmountSign ==
    \A k \in 1..Len(transactions) :
        /\ transactions[k].amount.eur >= 0
        /\ transactions[k].amount.bgn >= 0
        /\ transactions[k].amount.eur \in {ParsedAmount(k).eur, -ParsedAmount(k).eur}
        /\ transactions[k].amount.bgn \in {ParsedAmount(k).bgn, -ParsedAmount(k).bgn}
        /\ transactions[k].is_debit <=> (ParsedAmount(k).eur < 0)

\* C11 witness: a transaction whose EUR number is negative and whose BGN
\* number is positive came out as a debit of positive amounts.
C11_Witness ==
    /\ pc = "done"
    /\ \E k \in 1..Len(transactions) :
          /\ ParsedAmount(k).eur < 0 /\ ParsedAmount(k).bgn > 0
          /\ transactions[k].is_debit
          /\ transactions[k].amount = Balance(300, 587)

(***************************************************************************)
(* Properties of _detect_transaction_type                                  *)
(***************************************************************************)
\* The rules in their fixed order: category and keywords.
Rules == <<
    [category |-> "SEPA_INCOMING",     keywords |-> { <<"SEPA", "POLUCHEN">> }],
    [category |-> "SEPA_OUTGOING",     keywords |-> { <<"IZHODYASHT", "VALUTEN", "PREVOD">>,
                                                      <<"IZHODYASHT">> }],
    [category |-> "CARD_TRANSACTION",  keywords |-> { <<"KARTOVA", "TRANZAKTSIYA">> }],
    [category |-> "FEE",               keywords |-> { <<"SABRANA", "TAKSA", "ILI", "KOMISIONA">> }],
    [category |-> "TRANSFER_FEE",      keywords |-> { <<"TAKSA", "IZH.">>, <<"TAKSA">> }],
    [category |-> "INTERNAL_TRANSFER", keywords |-> { <<"PREVOD">> }],
    [category |-> "CURRENCY_EXCHANGE", keywords |-> { <<"PRODAZHBA", "NA", "VALUTA">>,
                                                      <<"POKUPKA", "NA", "VALUTA">> }] >>

\* Rule r matches the text: one of its keywords occurs in the upper-cased text.
RuleMatches(r, text) == \E kw \in Rules[r].keywords : HasKeyword(text, kw)

Classified == detected_type # NoCall

\* C12: the category returned is that of the first rule, in the fixed order,
\* that matches the upper-cased text, and UNKNOWN exactly when no keyword
\* occurs; so a description with the generic transfer keyword and a keyword of
\* an earlier, more specific rule is never INTERNAL_TRANSFER.
C12_FirstRuleWins ==
    Classified =>
        /\ \A r \in 1..Len(Rules) :
              (RuleMatches(r, class_input) /\ \A q \in 1..(r - 1) : ~RuleMatches(q, class_input))
                  => detected_type = Rules[r].category
        /\ (detected_type = "UNKNOWN") <=> (\A r \in 1..Len(Rules) : ~RuleMatches(r, class_input))
        /\ (RuleMatches(6, class_input) /\ \E q \in 1..5 : RuleMatches(q, class_input))
              => detected_type # "INTERNAL_TRANSFER"

\* C12 witness: the generic transfer keyword stands before the keyword of the
\* outgoing fee in the text, and the fee rule won.
C12_Witness ==
    /\ class_input = <<"PREVOD", "TAKSA", "IZH.">>
    /\ detected_type = "TRANSFER_FEE"

(***************************************************************************)
(* Properties of _extract_counterparty                                     *)
(***************************************************************************)
CounterpartyExtracted == counterparty # Pending

\* A line that holds the bank marker.
IsBankMarkerLine(line) == \E k \in 1..Len(line) : line[k] \in BankMarkers

\* The lines with the bank marker that may be inserted.
BankMarkerLines == { line \in CounterpartyLineSet : IsBankMarkerLine(line) }

\* The text a line has after a bank marker followed by a colon or white space.
BankTextOf(line) ==
    IF \E k \in 1..(Len(line) - 1) : line[k] \in SeparatedBankMarkers
    THEN LET k == CHOOSE k \in 1..(Len(line) - 1) :
                     /\ line[k] \in SeparatedBankMarkers
                     /\ \A j \in 1..(k - 1) : line[j] \notin SeparatedBankMarkers
         IN  SubSeq(line, k + 1, Len(line))
    ELSE <<>>

\* The bank text of the last line at index >= 1 that has one, or nothing.
LastBankText(lines) ==
    LET having == { k \in 2..Len(lines) : BankTextOf(lines[k]) # <<>> }
    IN  IF having = {} THEN <<>>
        ELSE BankTextOf(lines[CHOOSE k \in having : \A j \in having : j <= k])

InsertAt(lines, k, line) == SubSeq(lines, 1, k - 1) \o <<line>> \o SubSeq(lines, k, Len(lines))

RemoveAt(lines, k) == SubSeq(lines, 1, k - 1) \o SubSeq(lines, k + 1, Len(lines))

\* Two results agree on name, reference and iban.
SameButBank(a, b) == a.name = b.name /\ a.reference = b.reference /\ a.iban = b.iban

\* Inserting or removing a line with the bank marker at an index >= 1 (a
\* position >= 2 here) leaves name, reference and iban as they are.
BankLineIsNeutral ==
    /\ \A b \in BankMarkerLines : \A k \in 2..(Len(cp_lines) + 1) :
          SameButBank(_extract_counterparty(InsertAt(cp_lines, k, b), cp_type), counterparty)
    /\ \A k \in 2..Len(cp_lines) :
          IsBankMarkerLine(cp_lines[k]) =>
              SameButBank(_extract_counterparty(RemoveAt(cp_lines, k), cp_type), counterparty)

\* C13 as stated: a bank-marker line does not touch name, reference and iban,
\* and with a bank-marker line inserted bank is populated, from a bank-marker line.
C13_Original ==
    CounterpartyExtracted =>
        /\ BankLineIsNeutral
        /\ \A b \in BankMarkerLines : \A k \in 2..(Len(cp_lines) + 1) :
              LET lines == InsertAt(cp_lines, k, b)
                  bank  == _extract_counterparty(lines, cp_type).bank
              IN  /\ bank # Unset
                  /\ \E j \in 2..Len(lines) : IsBankMarkerLine(lines[j]) /\ bank = BankTextOf(lines[j])

\* C13 amended: a bank-marker line at an index >= 1 does not touch name,
\* reference and iban; bank is the text after the marker of the last line in
\* which the marker is followed by a colon or white space and then by text, and
\* stays unset when no line is such.
C13_NoSuppression ==
    CounterpartyExtracted =>
        /\ BankLineIsNeutral
        /\ counterparty.bank = LastBankText(cp_lines)
        /\ \A b \in BankMarkerLines : \A k \in 2..(Len(cp_lines) + 1) :
              _extract_counterparty(InsertAt(cp_lines, k, b), cp_type).bank
                  = LastBankText(InsertAt(cp_lines, k, b))

\* C13 witness: a name line and a bank line stand together; both fields are set.
C13_Witness ==
    /\ cp_lines = << <<"KARTOVA", "TRANZAKTSIYA">>, <<"OT BANKA:", "UBB">>, <<"MERCHANT-CITY-BG">> >>
    /\ cp_type = "CARD_TRANSACTION"
    /\ CounterpartyExtracted
    /\ counterparty.bank = <<"UBB">>
    /\ counterparty.name = <<"MERCHANT-CITY-BG">>

\* Some line at an index >= 1 sets a field: the fields after it differ from
\* the fields before it.
SetBySomeLine ==
    \E k \in 2..Len(cp_lines) :
        LET before == CounterpartyLoop(NoCounterparty, SubSeq(cp_lines, 1, k - 1), 1, cp_type)
        IN  CounterpartyLine(before, cp_lines[k], cp_type) # before

\* C14: _extract_counterparty returns None exactly when no line set any of
\* name, reference, bank and iban, and a Counterparty it returns has at least
\* one non-empty field.
C14_NoneIffNothingSet ==
    CounterpartyExtracted =>
        /\ counterparty.none <=> ~SetBySomeLine
        /\ ~counterparty.none =>
              \/ counterparty.name # Unset \/ counterparty.reference # Unset
              \/ counterparty.bank # Unset \/ counterparty.iban # Unset
        /\ counterparty.none =>
              /\ counterparty.name = Unset /\ counterparty.reference = Unset
              /\ counterparty.bank = Unset /\ counterparty.iban = Unset

\* C14 witness: lines were looked at, none set a field, None came back.
C14_Witness ==
    /\ CounterpartyExtracted
    /\ Len(cp_lines) = 3
    /\ \A k \in 1..3 : cp_lines[k] # <<>>
    /\ counterparty.none

(***************************************************************************)
(* Properties of extract_footer                                            *)
(***************************************************************************)
FooterExtracted == footer # Pending

\* The page holds the closing-balance marker.
HasClosingMarker(page) == \E k \in 1..Len(page) : \E j \in 1..Len(page[k]) : page[k][j] = "Krayno saldo:"

\* The index of the page the claim selects: the highest with the marker, the
\* last one when no page has it (0 when there is no page).
SelectedIndex ==
    IF \E k \in 1..Len(pages_text) : HasClosingMarker(pages_text[k])
    THEN CHOOSE k \in 1..Len(pages_text) :
            /\ HasClosingMarker(pages_text[k])
            /\ \A j \in (k + 1)..Len(pages_text) : ~HasClosingMarker(pages_text[j])
    ELSE Len(pages_text)

\* C15: extract_footer reads its values from the highest-indexed page that
\* holds the closing-balance marker, from the last page when none holds it; the
\* result is that of the document cut after the selected page, so the pages
\* after it have no influence.
C15_SummaryPage ==
    (FooterExtracted /\ pages_text # <<>>) =>
        /\ footer = FooterOfPage(pages_text[SelectedIndex])
        /\ footer = extract_footer(SubSeq(pages_text, 1, SelectedIndex))

\* C15 witness: the marker stands on the first page, a page of notes follows,
\* and the closing balance is that of the first page.
C15_Witness ==
    /\ FooterExtracted
    /\ Len(pages_text) = 2
    /\ HasClosingMarker(pages_text[1]) /\ pages_text[2] = << <<"Belezhka">> >>
    /\ footer.raised = "none"
    /\ footer.closing_balance = Balance(115000, 224921)

\* The amounts that follow a credit label on the selected page, in page order.
CreditAmounts ==
    LET toks == Flatten(pages_text[SelectedIndex])
        at   == { k \in 1..(Len(toks) - 1) :
                    toks[k] = "Kredit:" /\ toks[k + 1] \in UnsignedAmountTokens }
        Nth[n \in 1..Cardinality(at)] ==
            CHOOSE k \in at : Cardinality({ j \in at : j <= k }) = n
    IN  [n \in 1..Cardinality(at) |->
            Balance(CentsOf(AmountGroups(toks[Nth[n] + 1]).eur),
                    CentsOf(AmountGroups(toks[Nth[n] + 1]).bgn))]

\* Both turnovers were extracted: neither is the default of the else branch.
BothTurnoversExtracted ==
    /\ FooterExtracted /\ pages_text # <<>>
    /\ footer.raised = "none"
    /\ footer.turnover # Turnover(Zero, Zero)
    /\ footer.accumulated_turnover # Turnover(Zero, Zero)

\* C16: when both turnovers are extracted, the current-period turnover credit
\* is the first credit amount on the selected page and the accumulated
\* turnover credit is the second.
C16_Original ==
    BothTurnoversExtracted =>
        /\ footer.turnover.credit = CreditAmounts[1]
        /\ footer.accumulated_turnover.credit = CreditAmounts[2]

\* The part of C16 that holds: the accumulated credit is the second credit
\* amount on the page, and the current-period credit is one of its credit amounts.
C16_AccumulatedIsSecond ==
    BothTurnoversExtracted =>
        /\ footer.accumulated_turnover.credit = CreditAmounts[2]
        /\ \E n \in 1..Len(CreditAmounts) : footer.turnover.credit = CreditAmounts[n]

(***************************************************************************)
(* Properties of extract_header                                            *)
(***************************************************************************)
HeaderExtracted == header # Pending

\* The first page, empty when no page is loaded.
FirstPage == IF pages_text # <<>> THEN pages_text[1] ELSE <<>>

HeaderFields == {"holder_code", "holder_name", "address", "iban", "currency", "from_date",
                 "to_date", "statement_number", "statement_date", "opening_balance"}

\* The label the search of a field starts from.
LabelOf(f) ==
    CASE f \in {"holder_code", "holder_name"}         -> "Titulyar na smetkata"
      [] f = "address"                                -> "Adres"
      [] f = "iban"                                   -> "IBAN:"
      [] f = "currency"                               -> "Valuta"
      [] f \in {"from_date", "to_date"}               -> "Period na izvlechenieto:"
      [] f \in {"statement_number", "statement_date"} -> "Poreden nomer / Data:"
      [] f = "opening_balance"                        -> "Nachalno saldo:"

\* The default of a field whose search fails.
DefaultOf(f) ==
    CASE f \in {"holder_code", "iban"}                       -> ""
      [] f \in {"holder_name", "address"}                    -> <<>>
      [] f = "currency"                                      -> "EUR"
      [] f \in {"from_date", "to_date", "statement_date"}    ->
            [year |-> today[1], month |-> today[2], day |-> today[3]]
      [] f = "statement_number"                              -> 0
      [] f = "opening_balance"                               -> Balance(0, 0)

LineHasLabel(line, label) == \E j \in 1..Len(line) : line[j] = label

PageHasLabel(page, label) == \E k \in 1..Len(page) : LineHasLabel(page[k], label)

\* The header is a complete record in which a field without its label on the
\* page has its default.
HeaderIsComplete ==
    /\ DOMAIN header = HeaderFields \cup {"raised"}
    /\ \A f \in HeaderFields :
          ~PageHasLabel(FirstPage, LabelOf(f)) => header[f] = DefaultOf(f)

\* The header of the first page without its line k, so that the search of the
\* fields that line carries fails.
HeaderWithout(k) == extract_header(<<[FirstPage EXCEPT ![k] = <<>>]>>, today)

\* The fields whose label stands on line k of the first page.
FieldsOn(k) == { f \in HeaderFields : LineHasLabel(FirstPage[k], LabelOf(f)) }

\* The same, and the address when the line stands at or after an address
\* label: the address runs over the lines up to the IBAN label that ends it.
FieldsReading(k) ==
    FieldsOn(k) \cup (IF \E j \in 1..k : LineHasLabel(FirstPage[j], "Adres")
                      THEN {"address"} ELSE {})

\* C17: extract_header returns a complete header record for any first-page
\* text, the empty one included; a field whose search fails takes its default,
\* and the failure of one field leaves the value of every other field as it is.
C17_Original ==
    HeaderExtracted =>
        /\ header.raised = "none"
        /\ HeaderIsComplete
        /\ \A k \in 1..Len(FirstPage) :
              /\ HeaderWithout(k).raised = "none"
              /\ \A f \in HeaderFields \ FieldsOn(k) : HeaderWithout(k)[f] = header[f]

\* What holds of C17 on the calls that return: the record is complete, the
\* defaults are as stated, and a field depends on its own text only, the
\* text of the address being all that stands between its label and the IBAN label.
C17_WhenReturned ==
    (HeaderExtracted /\ header.raised = "none") =>
        /\ HeaderIsComplete
        /\ \A k \in 1..Len(FirstPage) :
              HeaderWithout(k).raised = "none" =>
                  \A f \in HeaderFields \ FieldsReading(k) : HeaderWithout(k)[f] = header[f]

(***************************************************************************)
(* Properties of parse() over extractor instances                          *)
(***************************************************************************)
Returned(x) == extractors[x].pc = "done"
Raised(x)   == extractors[x].pc = "raised"

\* C18: with at least one page supplied, extract_header, extract_footer and
\* extract_transactions never raise, whatever the page texts: an ill-formed
\* number or an impossible date degrades to a default or is skipped.
C18_NeverRaises ==
    \A x \in Instances :
        Len(extractors[x].pdf) >= 1 => extractors[x].raised = "none"

\* C19: two parses of identical page texts, each on a fresh extractor and
\* possibly on different calendar days, yield the same statement, also when
\* the period or the statement date is missing from the header.
C19_Original ==
    \A x, y \in Instances :
        (/\ Returned(x) /\ Returned(y)
         /\ extractors[x].pdf = extractors[y].pdf)
        => extractors[x].statement = extractors[y].statement

\* What an instance has returned or raised, in the shape of ParseAlone.
Outcome(x) ==
    IF Returned(x) THEN [raised |-> "none", statement |-> extractors[x].statement]
    ELSE [raised |-> extractors[x].raised]

\* C20: two extractor instances parsing different documents, with their steps
\* interleaved in any order, each return the statement (or raise the
\* exception) they return when run alone on the same day.
C20_AsAlone ==
    \A x \in Instances :
        (Returned(x) \/ Raised(x))
        => Outcome(x) = ParseAlone(extractors[x].pdf, extractors[x].today)

\* Both instances have returned, on different documents with transactions,
\* the second having loaded its pages while the first was already parsing.
C20_Witness ==
    /\ Returned(1) /\ Returned(2)
    /\ extractors[1].pdf = DocPlain /\ extractors[2].pdf = DocUndated
    /\ Len(extractors[1].statement.transactions) = 1
    /\ Len(extractors[2].statement.transactions) = 1
    /\ extractors[1].statement # extractors[2].statement

\* The transactions instance x has extracted so far.
TransactionsOf(x) == extractors[x].transactions

\* The year with the two digits yy in the century of the year given.
YearInCenturyOf(yy, year) == (year - (year % 100)) + yy

\* C21: the year of the period's from date resolves the two-digit years of
\* the document: each posting date's year is the year with the digits
\* printed that the period's from year gives.
C21_Original ==
    \A x \in Instances :
        Returned(x) =>
            \A k \in 1..Len(extractors[x].statement.transactions) :
                LET tx == extractors[x].statement.transactions[k]
                IN  tx.posting_date.year =
                        YearInCenturyOf(tx.posting_date.year % 100,
                                        extractors[x].statement.header.from_date.year)

\* C23: for every emitted transaction, value_date.year = posting_date.year,
\* also when the posting date is in January and the value date in December.
C23_ValueYearIsPostingYear ==
    \A x \in Instances :
        \A k \in 1..Len(TransactionsOf(x)) :
            TransactionsOf(x)[k].value_date.year = TransactionsOf(x)[k].posting_date.year

\* A returned statement with a January posting date and a December value date.
C23_Witness ==
    \E x \in Instances :
        /\ Returned(x)
        /\ \E k \in 1..Len(TransactionsOf(x)) :
              /\ TransactionsOf(x)[k].posting_date.month = 1
              /\ TransactionsOf(x)[k].value_date.month = 12
              /\ TransactionsOf(x)[k].value_date.year = 2026

(***************************************************************************)
(* Properties of import_statement                                          *)
(***************************************************************************)
ImportEnded == imp.pc = "ended"

\* The rows of the statements table with the identifier.
StatementRows(statement_id) ==
    { k \in 1..Len(bq.statements) : bq.statements[k] = statement_id }

\* No row was inserted into statements or transactions by the call.
NothingInserted ==
    bq.statements = imp.before.statements /\ bq.transactions = imp.before.transactions

\* Same IBAN, statement date, statement number and opening EUR balance.
SameStatement(a, b) ==
    /\ a.iban = b.iban
    /\ a.statement_date = b.statement_date
    /\ a.statement_number = b.statement_number
    /\ a.opening_balance_eur.cents = b.opening_balance_eur.cents

\* C22, as stated: after a successful import, every later call for a
\* statement with the same IBAN, date, number and opening EUR balance raises
\* DuplicateStatementError and inserts no row, and the statements table
\* holds at most one row per identifier.
C22_Original ==
    /\ ImportEnded =>
          ((\E st \in imp.earlier : SameStatement(st, imp.statement))
           => (imp.outcome = "DuplicateStatementError" /\ NothingInserted))
    /\ \A st \in ImportStatements : Cardinality(StatementRows(generate_statement_id(st))) <= 1

\* C22, amended: the opening EUR balance counts with its digits, as
\* str(Decimal) prints it: after a successful import every later call for a
\* statement with the same identifier raises DuplicateStatementError and
\* inserts no row, and the statements table holds at most one row per
\* identifier.
C22_DuplicateRejected ==
    /\ ImportEnded =>
          ((\E st \in imp.earlier : generate_statement_id(st) = imp.statement_id)
           => (imp.outcome = "DuplicateStatementError" /\ NothingInserted))
    /\ \A st \in ImportStatements : Cardinality(StatementRows(generate_statement_id(st))) <= 1

\* A statement imported with success is handed in again, with other
\* transactions and another file name, and is rejected.
C22_Witness ==
    /\ ImportEnded
    /\ imp.outcome = "DuplicateStatementError"
    /\ \E st \in imp.earlier :
          /\ generate_statement_id(st) = imp.statement_id
          /\ st # imp.statement
    /\ NothingInserted

\* C30: whenever import_statement ends by raising ImportError, the
\* statements table holds no row for the statement's identifier, so that a
\* retry is not rejected as a duplicate.
C30_Original ==
    (ImportEnded /\ imp.outcome = "ImportError") => StatementRows(imp.statement_id) = {}

(***************************************************************************)
(* Properties of repeated parse() calls                                    *)
(***************************************************************************)
\* C29: calling parse() more than once on the same instance returns an equal
\* BankStatement each time: the page list after the second call equals the
\* page list after the first, and the transaction list is not lengthened.
C29_Original ==
    \A x \in Instances :
        Len(extractors[x].returned) >= 2 =>
            LET a == extractors[x].returned[1]
                b == extractors[x].returned[2]
            IN  /\ b.pages_text = a.pages_text
                /\ Len(b.statement.transactions) <= Len(a.statement.transactions)
                /\ b.statement = a.statement

(***************************************************************************)
(* The order of the rules of _extract_counterparty                         *)
(***************************************************************************)
\* The rules in the order of the claim: 1 bank marker, 2 embedded IBAN,
\* 3 skip-list, 4 pure 7+-digit reference, 5 card merchant shape, 6 name,
\* 7 invoice or numeric reference.
CounterpartyRules == 1..7

\* Rule r applies to the line, with the fields set so far.
RuleApplies(r, cp, line, tx_type) ==
    CASE r = 1 -> IsBankMarkerLine(line)
      [] r = 2 -> \E k \in 1..Len(line) : line[k] \in IbanTokens
      [] r = 3 -> line = <<"KARTOVA", "TRANZAKTSIYA">> \/ (Len(line) = 1 /\ line[1] \in SkipTokens)
      [] r = 4 -> Len(line) = 1 /\ line[1] \in LongDigitTokens
      [] r = 5 -> tx_type = "CARD_TRANSACTION" /\ Len(line) = 1 /\ line[1] \in MerchantTokens
      [] r = 6 -> cp.name = Unset /\ LongerThanTwo(line) /\ ~PurelyNumeric(line)
      [] r = 7 -> /\ cp.reference = Unset /\ cp.name # Unset
                  /\ \/ \E k \in 1..Len(line) : line[k] \in InvoiceTokens
                     \/ Len(line) = 1 /\ line[1] \in LongDigitTokens \cup ShortDigitTokens

\* What rule r does with the line.
RuleAction(r, cp, line) ==
    CASE r = 1 -> IF BankTextOf(line) # Unset THEN [cp EXCEPT !.bank = BankTextOf(line)] ELSE cp
      [] r = 2 -> [cp EXCEPT !.iban = <<CHOOSE t \in IbanTokens : \E k \in 1..Len(line) : line[k] = t>>]
      [] r = 3 -> cp
      [] r = 4 -> IF cp.reference = Unset THEN [cp EXCEPT !.reference = line] ELSE cp
      [] r = 5 -> IF cp.name = Unset THEN [cp EXCEPT !.name = line] ELSE cp
      [] r = 6 -> [cp EXCEPT !.name = line]
      [] r = 7 -> [cp EXCEPT !.reference = line]

\* The first rule that applies, and nothing else, handles the line.
FirstRule(cp, line, tx_type) ==
    LET applicable == { r \in CounterpartyRules : RuleApplies(r, cp, line, tx_type) }
    IN  IF line = <<>> \/ applicable = {} THEN cp
        ELSE RuleAction(CHOOSE r \in applicable : \A q \in applicable : r <= q, cp, line)

\* The lines from index k on, each handled by its first rule.
RECURSIVE ByFirstRule(_, _, _, _)
ByFirstRule(cp, lines, k, tx_type) ==
    IF k > Len(lines) THEN cp
    ELSE ByFirstRule(FirstRule(cp, lines[k], tx_type), lines, k + 1, tx_type)

\* The fields of a result, None having none.
FieldsOf(cp) == <<cp.name, cp.reference, cp.bank, cp.iban>>

\* C24: each non-empty line at index >= 1 is handled by exactly the first
\* applicable rule in the order bank marker, embedded IBAN, skip-list, pure
\* 7+-digit reference, card merchant shape (card transactions only), name,
\* invoice/numeric reference, and line 0 is never examined: a line with a
\* bank marker and an IBAN sets only bank, a line with an IBAN and other text
\* sets only iban, and the card example gives the merchant as name alone.
C24_FirstRuleOnly ==
    CounterpartyExtracted =>
        /\ FieldsOf(counterparty) = FieldsOf(ByFirstRule(NoCounterparty, cp_lines, 2, cp_type))
        /\ \A other \in CounterpartyLineSet :
              cp_lines # <<>> =>
                  _extract_counterparty([cp_lines EXCEPT ![1] = other], cp_type) = counterparty
        /\ \A k \in 2..Len(cp_lines) :
              LET before == CounterpartyLoop(NoCounterparty, SubSeq(cp_lines, 1, k - 1), 1, cp_type)
                  after  == CounterpartyLoop(NoCounterparty, SubSeq(cp_lines, 1, k), 1, cp_type)
                  hasIban == \E j \in 1..Len(cp_lines[k]) : cp_lines[k][j] \in IbanTokens
              IN  /\ (IsBankMarkerLine(cp_lines[k]) /\ hasIban) =>
                         /\ after.bank = IF BankTextOf(cp_lines[k]) # Unset
                                         THEN BankTextOf(cp_lines[k]) ELSE before.bank
                         /\ after.name = before.name /\ after.reference = before.reference
                         /\ after.iban = before.iban
                  /\ (~IsBankMarkerLine(cp_lines[k]) /\ hasIban /\ Len(cp_lines[k]) >= 2) =>
                         /\ after.iban # Unset
                         /\ after.name = before.name /\ after.reference = before.reference
                         /\ after.bank = before.bank
        /\ (cp_lines = << <<"KARTOVA", "TRANZAKTSIYA">>, <<"MERCHANT-CITY-BG">> >>
            /\ cp_type = "CARD_TRANSACTION") =>
               counterparty = [none |-> FALSE, name |-> <<"MERCHANT-CITY-BG">>,
                               reference |-> Unset, bank |-> Unset, iban |-> Unset]

\* The card example followed by a line with a bank marker and an IBAN.
C24_Witness ==
    /\ CounterpartyExtracted
    /\ cp_type = "CARD_TRANSACTION"
    /\ cp_lines = << <<"KARTOVA", "TRANZAKTSIYA">>, <<"MERCHANT-CITY-BG">>,
                     <<"OT BANKA:", "BG41UBBS80021012345678">> >>
    /\ counterparty.name = <<"MERCHANT-CITY-BG">>
    /\ counterparty.bank = <<"BG41UBBS80021012345678">>
    /\ counterparty.iban = Unset

(***************************************************************************)
(* Further properties of extract_transactions                              *)
(***************************************************************************)
\* What the call has returned or raised, with the list built.
ExtractOutcome == [raised |-> raised, transactions |-> transactions]

\* C25, the output: the start line that ends a discarded candidate gives its
\* own transaction when its block has an amount.
C25_Output ==
    pc = "done" =>
        \A pp \in 1..Len(pages_text) : \A s \in 1..Len(pages_text[pp]) :
            LET page == pages_text[pp]
                e    == NextStart(page, s)
            IN  (Discarded(page, s) /\ Closes(page, e)) =>
                    /\ Cardinality(EmittedFor(pp, e)) = 1
                    /\ \A k \in EmittedFor(pp, e) : transactions[k] = BlockTransaction(page, e)

\* C25, the steps: the step that discards leaves the line index at the new
\* start line, and the scan takes a start line as the start of a candidate.
C25_Step ==
    /\ AtNewStartWithoutAmount =>
          (pc' = "scan" /\ cur_line' = cur_line /\ cur_page' = cur_page)
    /\ (pc = "scan" /\ InPage /\ IsTransactionStart(Line)) =>
          (start_at' = <<cur_page, cur_line>> /\ start_line' = Line
           /\ pc' \in {"collecting", "trailing"})

\* C25: when a candidate is discarded because a new transaction-start line
\* was reached, that line is not consumed: it is itself evaluated as the
\* start of the next candidate, so a well-formed transaction directly after a
\* malformed one is still emitted.
C25_StartNotConsumed == [](C25_Output) /\ [][C25_Step]_vars

\* A candidate without amount directly followed by a one-line transaction,
\* which was emitted.
C25_Witness ==
    /\ pc = "done"
    /\ \E pp \in 1..Len(pages_text) :
          /\ Len(pages_text[pp]) >= 2
          /\ Discarded(pages_text[pp], 1)
          /\ HasAmount(pages_text[pp][2])
          /\ EmittedFor(pp, 2) # {}
          /\ EmittedFor(pp, 1) = {}

\* C26: a boilerplate line (interim balance, page marker, letterhead) never
\* contributes to any transaction, neither its text to a raw_description nor
\* an amount printed on it to a transaction's amount, in both branches: the
\* outcome is that of the document without the line.
C26_Original ==
    Ended =>
        \A pp \in 1..Len(pages_text) : \A b \in 1..Len(pages_text[pp]) :
            IsBoilerplate(pages_text[pp][b]) =>
                extract_transactions([pages_text EXCEPT ![pp] = RemoveAt(@, b)]) = ExtractOutcome

\* The boilerplate lines without an amount contribute nothing, and those
\* with an amount contribute nothing after a transaction closed on its start
\* line.
C26_ExceptClosingLine ==
    Ended =>
        \A pp \in 1..Len(pages_text) : \A b \in 1..Len(pages_text[pp]) :
            (/\ IsBoilerplate(pages_text[pp][b])
             /\ \A s \in 1..(b - 1) :
                    (IsTransactionStart(pages_text[pp][s]) /\ ~HasAmount(pages_text[pp][s]))
                    => ClosingLine(pages_text[pp], s) # b)
            => extract_transactions([pages_text EXCEPT ![pp] = RemoveAt(@, b)]) = ExtractOutcome

\* The pages read one by one, each by a call of its own.
RECURSIVE PageByPage(_, _, _)
PageByPage(pages, k, out) ==
    IF k > Len(pages) THEN [raised |-> "none", transactions |-> out]
    ELSE LET r == extract_transactions(<<pages[k]>>)
         IN  IF r.raised # "none"
             THEN [raised |-> r.raised, transactions |-> out \o r.transactions]
             ELSE PageByPage(pages, k + 1, out \o r.transactions)

\* C27, the states: the candidate at hand stands on the page at hand, and the
\* outcome is that of the pages read one by one.
C27_Pages ==
    /\ pc \in {"collecting", "trailing", "parse"} => start_at[1] = cur_page
    /\ Ended => ExtractOutcome = PageByPage(pages_text, 1, <<>>)
    /\ \A k \in 1..Len(transactions) :
          LET page == pages_text[origin[k][1]]
          IN  /\ transactions[k].raw_description =
                    Flatten(BlockLines(page, origin[k][2], NeitherBoilerplateNorHeader))
              /\ transactions[k].amount =
                    Balance(Abs(CentsOf(AmountGroups(BlockAmount(page, origin[k][2])).eur)),
                            Abs(CentsOf(AmountGroups(BlockAmount(page, origin[k][2])).bgn)))

\* C27, the steps: at the end of the page a candidate without amount is
\* dropped without an error, the trailing lines of a closed transaction end,
\* and the page changes only between candidates.
C27_Step ==
    /\ (pc = "collecting" /\ ~InPage) =>
          (transactions' = transactions /\ raised = "none" /\ raised' = "none" /\ pc' = "scan")
    /\ (pc = "trailing" /\ ~InPage) =>
          (description_lines' = description_lines /\ pc' = "parse")
    /\ cur_page' # cur_page => (pc = "scan" /\ pc' = "scan" /\ cur_line' = 1)

\* C27: segmenter state does not carry across pages: every transaction's
\* description lines and amount come from a single page, a candidate still
\* waiting for its amount when its page ends is discarded without an error,
\* and trailing-line collection stops at the end of the page.
C27_NothingAcrossPages == [](C27_Pages) /\ [][C27_Step]_vars

\* Page 1 ends with a start line without amount, page 2 begins with an
\* amount line and text: nothing was emitted and nothing raised.
C27_Witness ==
    /\ pc = "done"
    /\ Len(pages_text) = 2
    /\ LET last == pages_text[1][Len(pages_text[1])]
       IN  IsTransactionStart(last) /\ ~HasAmount(last)
    /\ HasAmount(pages_text[2][1]) /\ ~IsTransactionStart(pages_text[2][1])
    /\ ParseFailure(pages_text[1][Len(pages_text[1])], AmountOf(pages_text[2][1])) = "none"
    /\ transactions = <<>>

\* The lines not yet passed: the rest of the page at hand and the later pages.
RECURSIVE LinesFrom(_, _)
LinesFrom(pages, k) == IF k > Len(pages) THEN 0 ELSE Len(pages[k]) + LinesFrom(pages, k + 1)

RemainingLines ==
    IF cur_page > Len(pages_text) THEN 0
    ELSE (IF cur_line > Len(Lines) THEN 0 ELSE Len(Lines) + 1 - cur_line)
         + LinesFrom(pages_text, cur_page + 1)

RemainingPages == IF cur_page > Len(pages_text) THEN 0 ELSE Len(pages_text) + 1 - cur_page

\* How far the call stands from the scan of the outer loop.
PcRank ==
    CASE pc = "trailing"   -> 3
      [] pc = "collecting" -> 2
      [] pc = "parse"      -> 2
      [] pc = "scan"       -> 1
      [] OTHER             -> 0

\* A number that every step makes smaller.
Variant == 4 * (RemainingLines + RemainingPages) + PcRank

\* C28, the steps: a turn of the outer scan begins by advancing the line
\* index, the index never goes back within a page, a line begins a candidate
\* once at most, and every step brings the end nearer.
C28_Step ==
    /\ (pc = "scan" /\ InPage) => (cur_line' = cur_line + 1 /\ cur_page' = cur_page)
    /\ cur_page' = cur_page => cur_line' >= cur_line
    /\ cur_page' >= cur_page
    /\ start_at' # start_at => (Before(start_at, start_at') /\ start_at' = <<cur_page, cur_line>>)
    /\ Variant' < Variant

\* C28: extract_transactions terminates on every finite list of finite
\* pages: each turn of the outer scan, the one that discards a candidate
\* without amount included, advances the line index by at least one, and no
\* line is the start line of more than one candidate.
C28_Terminates == <>Ended /\ [][C28_Step]_vars

\* The call has returned after dropping a candidate at a new start line and
\* one at the end of the page, with nothing emitted.
C28_Witness ==
    /\ pc = "done"
    /\ transactions = <<>>
    /\ \E pp \in 1..Len(pages_text) :
          /\ Len(pages_text[pp]) >= 2
          /\ Discarded(pages_text[pp], Len(pages_text[pp]) - 1)
          /\ IsTransactionStart(pages_text[pp][Len(pages_text[pp])])
          /\ ~HasAmount(pages_text[pp][Len(pages_text[pp])])

=============================================================================
